---- MODULE Spec2Model ----
(***************************************************************************)
(* A model of the line-editing widget StringInput of inquisition-ui        *)
(* (src/inquisition-ui/src/string_input.rs): the buffer `value`, its       *)
(* cached character length `value_len`, the character cursor `at`, and the *)
(* key handler that edits them.                                            *)
(*                                                                         *)
(* A char is a one-character string.  `value` is the sequence of chars of  *)
(* the Rust String; byte offsets are computed from the UTF-8 length of     *)
(* each char, so the char-index / byte-index conversions of the code are   *)
(* modelled as the code computes them.                                     *)
(***************************************************************************)
EXTENDS Integers, Sequences, FiniteSets, TLC

(***************************************************************************)
(* Bounds of the exploration.                                              *)
(***************************************************************************)
\* Characters are typed only while the buffer holds fewer than MaxLen chars.
MaxLen == 3
\* set_value is called with strings of at most MaxSetLen chars.
MaxSetLen == 2
\* usize is modelled with UsizeBits bits (64 on the usual targets; every
\* length in play is far below 2^UsizeBits, so only the wrap-around of a
\* subtraction below zero or an addition above the maximum is affected).
UsizeBits == 16
\* A release build wraps on overflow: a run is followed for MaxAfterWrap
\* handle_key calls from the first call with a wrapping operation on.
MaxAfterWrap == 3
\* A MultiSelect has at most MaxChoices choices and separators.
MaxChoices == 3

UsizeMod == 2 ^ UsizeBits

(***************************************************************************)
(* Characters.                                                             *)
(***************************************************************************)
\* "d", "w", "u", "k" are also the letters of the deletion shortcuts;
\* "é" is a two-byte letter, " " is whitespace, "-" is punctuation and "C"
\* is an upper-case letter.
Typable == {"d", "é", " ", "-", "C"}
ShortcutOnly == {"u", "w", "k"}

\* char::len_utf8
Utf8Len(c) == IF c = "é" THEN 2 ELSE 1

\* char::is_whitespace
IsWhitespace(c) == c = " "

\* char::is_uppercase
IsUppercase(c) == c = "C"

\* Unicode Word_Break property ALetter (UAX #29) of the chars used here.
IsLetter(c) == c \in {"d", "w", "u", "k", "é", "C"}

RECURSIVE ByteLen(_)
\* str::len: the length in bytes
ByteLen(s) == IF s = <<>> THEN 0 ELSE Utf8Len(Head(s)) + ByteLen(Tail(s))

\* The byte offset of the char with (0-based) char index k, k <= Len(s):
\* the first component of the k-th item of str::char_indices
ByteOffset(s, k) == ByteLen(SubSeq(s, 1, k))

\* str::is_char_boundary
IsCharBoundary(s, b) == \E k \in 0..Len(s) : ByteOffset(s, k) = b

\* The char index of a byte offset that is a char boundary
CharIndexOf(s, b) == CHOOSE k \in 0..Len(s) : ByteOffset(s, k) = b

Max(S) == CHOOSE x \in S : \A y \in S : y <= x
Min(S) == CHOOSE x \in S : \A y \in S : x <= y

(***************************************************************************)
(* StringInput's private helpers.                                          *)
(***************************************************************************)
\* StringInput::get_byte_i: the byte index of a char index
get_byte_i(v, index) ==
    IF index < Len(v) THEN ByteOffset(v, index) ELSE ByteLen(v)

\* StringInput::get_char_i: the char index of a byte index
get_char_i(v, byte_i) ==
    IF \E k \in 0..(Len(v) - 1) : ByteOffset(v, k) = byte_i
    THEN CHOOSE k \in 0..(Len(v) - 1) : ByteOffset(v, k) = byte_i
    ELSE Len(v)

\* UAX #29 for the chars used here: no break between two letters (WB5) nor
\* between two spaces (WB3d); a break everywhere else (WB999).
WordBreakBetween(a, b) ==
    /\ ~(IsLetter(a) /\ IsLetter(b))
    /\ ~(IsWhitespace(a) /\ IsWhitespace(b))

\* split_word_bound_indices on a slice: the (1-based) char positions where a
\* segment starts
SegmentStarts(slice) ==
    {i \in 1..Len(slice) : i = 1 \/ WordBreakBetween(slice[i - 1], slice[i])}

\* StringInput::word_iter over the byte range lo..hi: the byte offsets,
\* relative to lo, of the segments that do not start with whitespace
word_iter(v, lo, hi) ==
    LET slice == SubSeq(v, CharIndexOf(v, lo) + 1, CharIndexOf(v, hi))
    IN  {ByteOffset(slice, i - 1) :
            i \in {j \in SegmentStarts(slice) : ~IsWhitespace(slice[j])}}

\* StringInput::find_word_left
find_word_left(v, byte_i) ==
    LET words == word_iter(v, 0, byte_i)
    IN  IF words = {} THEN 0 ELSE Max(words)

\* StringInput::find_word_right
find_word_right(v, byte_i) ==
    LET words == word_iter(v, byte_i, ByteLen(v))
    IN  IF Cardinality(words) < 2
        THEN ByteLen(v)
        ELSE Min(words \ {Min(words)}) + byte_i

(***************************************************************************)
(* The String operations the handler uses (alloc::string::String), on the  *)
(* sequence of chars, addressed by byte offsets as in the code.            *)
(***************************************************************************)
\* String::replace_range(lo..hi, ""): panics unless lo <= hi and both are
\* char boundaries
replace_range_ok(v, lo, hi) ==
    lo <= hi /\ IsCharBoundary(v, lo) /\ IsCharBoundary(v, hi)

replace_range(v, lo, hi) ==
    SubSeq(v, 1, CharIndexOf(v, lo)) \o SubSeq(v, CharIndexOf(v, hi) + 1, Len(v))

\* String::remove(idx): panics when no char starts at idx
remove_ok(v, idx) == idx < ByteLen(v) /\ IsCharBoundary(v, idx)

remove(v, idx) ==
    SubSeq(v, 1, CharIndexOf(v, idx)) \o SubSeq(v, CharIndexOf(v, idx) + 2, Len(v))

\* String::pop: removes the last char, if any
pop(v) == IF v = <<>> THEN v ELSE SubSeq(v, 1, Len(v) - 1)

\* String::truncate(new_len): no effect when new_len > len, panics when
\* new_len is not a char boundary
truncate_ok(v, new_len) == new_len > ByteLen(v) \/ IsCharBoundary(v, new_len)

truncate(v, new_len) ==
    IF new_len > ByteLen(v) THEN v ELSE SubSeq(v, 1, CharIndexOf(v, new_len))

\* String::push
push(v, c) == Append(v, c)

\* String::insert(idx, c): panics unless idx is a char boundary
insert_ok(v, idx) == IsCharBoundary(v, idx)

insert(v, idx, c) ==
    SubSeq(v, 1, CharIndexOf(v, idx)) \o <<c>> \o SubSeq(v, CharIndexOf(v, idx) + 1, Len(v))

\* The smallest capacity a growing String allocates (RawVec::MIN_NON_ZERO_CAP
\* for one-byte elements).
MinNonZeroCap == 8

\* The capacity after String::push / String::insert of the char c
\* (RawVec::grow_amortized): unchanged when c fits, otherwise the larger of
\* twice the capacity, the needed length and MinNonZeroCap.
grow(cap, v, c) ==
    LET needed == ByteLen(v) + Utf8Len(c)
        twice  == IF 2 * cap > needed THEN 2 * cap ELSE needed
    IN  IF needed <= cap THEN cap
        ELSE IF twice > MinNonZeroCap THEN twice ELSE MinNonZeroCap

(***************************************************************************)
(* usize arithmetic: an overflowing operation panics in a build with       *)
(* overflow checks (debug) and wraps in one without (release).             *)
(***************************************************************************)
Overflowed(x) == x < 0 \/ x >= UsizeMod

Wrap(x) == x % UsizeMod

(***************************************************************************)
(* Key events: a key code, the char of a Char code, and the modifiers.     *)
(***************************************************************************)
Modifiers == SUBSET {"CONTROL", "ALT", "SHIFT"}

OtherCodes == {"Backspace", "Delete", "Left", "Right", "Home", "End", "Tab"}

KeyEvents ==
    [code : {"Char"}, ch : Typable, mods : Modifiers]
    \cup [code : {"Char"}, ch : ShortcutOnly,
          mods : {m \in Modifiers : m \cap {"CONTROL", "ALT"} # {}}]
    \cup [code : OtherCodes, ch : {""}, mods : Modifiers]

IsChar(key, c) == key.code = "Char" /\ key.ch = c

\* KeyModifiers::contains
contains(key, m) == m \in key.mods

\* The filter_map_char closures a StringInput is built with: the default
\* no_filter, one that rejects upper-case chars, and one that maps "-" to a
\* space.  None is [some |-> FALSE], Some(c) is [some |-> TRUE, c |-> c].
Filters == {"no_filter", "reject_upper", "dash_to_space"}

None == [some |-> FALSE]

Some(x) == [some |-> TRUE, c |-> x]

filter_map_char(f, c) ==
    CASE f = "no_filter" -> Some(c)
      [] f = "reject_upper" -> IF IsUppercase(c) THEN None ELSE Some(c)
      [] f = "dash_to_space" -> IF c = "-" THEN Some(" ") ELSE Some(c)

\* StringInput::is_delete_movement: the arms in the order of the match
is_delete_movement(self, key) ==
    CASE key.code = "Backspace" /\ self.at = 0 -> "None"
      [] IsChar(key, "u") /\ contains(key, "CONTROL") -> "Home"
      [] key.code = "Backspace" /\ contains(key, "ALT") -> "PrevWord"
      [] IsChar(key, "w") /\ contains(key, "ALT") -> "PrevWord"
      [] IsChar(key, "w") /\ contains(key, "CONTROL") -> "Left"
      [] key.code = "Backspace" -> "Left"
      [] key.code = "Delete" /\ self.at = self.value_len -> "None"
      [] IsChar(key, "k") /\ contains(key, "CONTROL") -> "End"
      [] key.code = "Delete" /\ contains(key, "ALT") -> "NextWord"
      [] IsChar(key, "d") /\ contains(key, "ALT") -> "NextWord"
      [] IsChar(key, "d") /\ contains(key, "CONTROL") -> "Right"
      [] key.code = "Delete" -> "Right"
      [] OTHER -> "None"

\* Movement::try_from_key, for the movements StringInput handles: the arrow
\* keys move by a char, or by a word with Control or Alt; Home and End.
try_from_key(key) ==
    CASE key.code = "Left" /\ key.mods \cap {"CONTROL", "ALT"} # {} -> "PrevWord"
      [] key.code = "Left" -> "Left"
      [] key.code = "Right" /\ key.mods \cap {"CONTROL", "ALT"} # {} -> "NextWord"
      [] key.code = "Right" -> "Right"
      [] key.code = "Home" -> "Home"
      [] key.code = "End" -> "End"
      [] OTHER -> "None"

(***************************************************************************)
(* StringInput::handle_key.  `self` is the record of the fields value,     *)
(* value_len, at and capacity; `oc` says whether the build checks          *)
(* overflow.  The outcome is the record of the fields as the call leaves   *)
(* them, with ret ("true", "false", or "panic" for a call that panics:     *)
(* the fields are then as the statements before the panic left them) and   *)
(* wrapped (an operation of the call wrapped around).                      *)
(***************************************************************************)
Outcome(self, v, vl, a, r, w) ==
    [value |-> v, value_len |-> vl, at |-> a, capacity |-> self.capacity,
     ret |-> r, wrapped |-> w]

\* Movement::Home of a deletion (Ctrl+U)
delete_home(self, oc) ==
    LET byte_i == get_byte_i(self.value, self.at)
        vl     == self.value_len - self.at
        w      == Overflowed(vl)
    IN  IF w /\ oc
        THEN Outcome(self, self.value, self.value_len, self.at, "panic", FALSE)
        ELSE IF ~replace_range_ok(self.value, 0, byte_i)
        THEN Outcome(self, self.value, Wrap(vl), 0, "panic", w)
        ELSE Outcome(self, replace_range(self.value, 0, byte_i), Wrap(vl), 0, "true", w)

\* Movement::PrevWord of a deletion (Alt+Backspace, Alt+W)
delete_prev_word(self, oc) ==
    LET was_at    == self.at
        byte_i    == get_byte_i(self.value, self.at)
        prev_word == find_word_left(self.value, byte_i)
        a         == get_char_i(self.value, prev_word)
        d         == was_at - a
        vl        == self.value_len - Wrap(d)
        w         == Overflowed(d) \/ Overflowed(vl)
    IN  IF w /\ oc
        THEN Outcome(self, self.value, self.value_len, a, "panic", FALSE)
        ELSE IF ~replace_range_ok(self.value, prev_word, byte_i)
        THEN Outcome(self, self.value, Wrap(vl), a, "panic", w)
        ELSE Outcome(self, replace_range(self.value, prev_word, byte_i),
                     Wrap(vl), a, "true", w)

\* Movement::Left of a deletion with the cursor at the end (Backspace, Ctrl+W)
delete_left_at_end(self, oc) ==
    LET a  == self.at - 1
        vl == self.value_len - 1
        w  == Overflowed(a) \/ Overflowed(vl)
    IN  IF Overflowed(a) /\ oc
        THEN Outcome(self, self.value, self.value_len, self.at, "panic", FALSE)
        ELSE IF Overflowed(vl) /\ oc
        THEN Outcome(self, self.value, self.value_len, Wrap(a), "panic", FALSE)
        ELSE Outcome(self, pop(self.value), Wrap(vl), Wrap(a), "true", w)

\* Movement::Left of a deletion elsewhere
delete_left(self, oc) ==
    LET a      == self.at - 1
        byte_i == get_byte_i(self.value, Wrap(a))
        vl     == self.value_len - 1
        w      == Overflowed(a) \/ Overflowed(vl)
    IN  IF Overflowed(a) /\ oc
        THEN Outcome(self, self.value, self.value_len, self.at, "panic", FALSE)
        ELSE IF Overflowed(vl) /\ oc
        THEN Outcome(self, self.value, self.value_len, Wrap(a), "panic", FALSE)
        ELSE IF ~remove_ok(self.value, byte_i)
        THEN Outcome(self, self.value, Wrap(vl), Wrap(a), "panic", w)
        ELSE Outcome(self, remove(self.value, byte_i), Wrap(vl), Wrap(a), "true", w)

\* Movement::End of a deletion (Ctrl+K)
delete_end(self, oc) ==
    LET byte_i == get_byte_i(self.value, self.at)
    IN  IF ~truncate_ok(self.value, byte_i)
        THEN Outcome(self, self.value, self.at, self.at, "panic", FALSE)
        ELSE Outcome(self, truncate(self.value, byte_i), self.at, self.at, "true", FALSE)

\* Movement::NextWord of a deletion (Alt+Delete, Alt+D)
delete_next_word(self, oc) ==
    LET byte_i    == get_byte_i(self.value, self.at)
        next_word == find_word_right(self.value, byte_i)
        d         == get_char_i(self.value, next_word) - self.at
        vl        == self.value_len - Wrap(d)
        w         == Overflowed(d) \/ Overflowed(vl)
    IN  IF w /\ oc
        THEN Outcome(self, self.value, self.value_len, self.at, "panic", FALSE)
        ELSE IF ~replace_range_ok(self.value, byte_i, next_word)
        THEN Outcome(self, self.value, Wrap(vl), self.at, "panic", w)
        ELSE Outcome(self, replace_range(self.value, byte_i, next_word),
                     Wrap(vl), self.at, "true", w)

\* Movement::Right of a deletion on the last char
delete_right_last(self, oc, w0) ==
    LET vl == self.value_len - 1
        w  == w0 \/ Overflowed(vl)
    IN  IF Overflowed(vl) /\ oc
        THEN Outcome(self, self.value, self.value_len, self.at, "panic", FALSE)
        ELSE Outcome(self, pop(self.value), Wrap(vl), self.at, "true", w)

\* Movement::Right of a deletion elsewhere
delete_right_other(self, oc, w0) ==
    LET byte_i == get_byte_i(self.value, self.at)
        vl     == self.value_len - 1
        w      == w0 \/ Overflowed(vl)
    IN  IF Overflowed(vl) /\ oc
        THEN Outcome(self, self.value, self.value_len, self.at, "panic", FALSE)
        ELSE IF ~remove_ok(self.value, byte_i)
        THEN Outcome(self, self.value, Wrap(vl), self.at, "panic", w)
        ELSE Outcome(self, remove(self.value, byte_i), Wrap(vl), self.at, "true", w)

\* Movement::Right of a deletion (Delete, Ctrl+D): the guard of the first
\* arm computes value_len - 1
delete_right(self, oc) ==
    LET last == self.value_len - 1
    IN  IF Overflowed(last) /\ oc
        THEN Outcome(self, self.value, self.value_len, self.at, "panic", FALSE)
        ELSE IF self.at = Wrap(last)
        THEN delete_right_last(self, oc, Overflowed(last))
        ELSE delete_right_other(self, oc, Overflowed(last))

\* The deletion of handle_key, for the movement is_delete_movement gave
delete_movement(self, movement, oc) ==
    CASE movement = "Home" -> delete_home(self, oc)
      [] movement = "PrevWord" -> delete_prev_word(self, oc)
      [] movement = "Left" /\ self.at = self.value_len -> delete_left_at_end(self, oc)
      [] movement = "Left" -> delete_left(self, oc)
      [] movement = "End" -> delete_end(self, oc)
      [] movement = "NextWord" -> delete_next_word(self, oc)
      [] movement = "Right" -> delete_right(self, oc)

\* The insertion of handle_key, of the char c the filter gave
insert_char(self, c, oc) ==
    LET byte_i == get_byte_i(self.value, self.at)
        a      == self.at + 1
        vl     == self.value_len + 1
        w      == Overflowed(a) \/ Overflowed(vl)
        v      == IF self.at = self.value_len
                  THEN push(self.value, c)
                  ELSE insert(self.value, byte_i, c)
        grown  == [self EXCEPT !.capacity = grow(self.capacity, self.value, c)]
    IN  IF self.at # self.value_len /\ ~insert_ok(self.value, byte_i)
        THEN Outcome(self, self.value, self.value_len, self.at, "panic", FALSE)
        ELSE IF Overflowed(a) /\ oc
        THEN Outcome(grown, v, self.value_len, self.at, "panic", FALSE)
        ELSE IF Overflowed(vl) /\ oc
        THEN Outcome(grown, v, self.value_len, Wrap(a), "panic", FALSE)
        ELSE Outcome(grown, v, Wrap(vl), Wrap(a), "true", w)

\* move_cursor without the boundary guards of Home and End
move_cursor_unguarded(self, movement, oc) ==
    LET to(a) == Outcome(self, self.value, self.value_len, a, "true", FALSE)
    IN  CASE movement = "Home" -> to(0)
          [] movement = "End" -> to(self.value_len)
          [] movement = "Left" /\ self.at # 0 -> to(self.at - 1)
          [] movement = "Right" /\ self.at # self.value_len -> to(Wrap(self.at + 1))
          [] OTHER -> Outcome(self, self.value, self.value_len, self.at, "false", FALSE)

\* move_cursor with Home stepping one char left instead of going to 0
move_cursor_home_steps(self, movement, oc) ==
    LET to(a) == Outcome(self, self.value, self.value_len, a, "true", FALSE)
    IN  CASE movement \in {"Left", "Home"} /\ self.at # 0 -> to(self.at - 1)
          [] movement \in {"Right", "End"} /\ self.at # self.value_len ->
                to(self.value_len)
          [] OTHER -> Outcome(self, self.value, self.value_len, self.at, "false", FALSE)

\* The cursor movement of handle_key, for the movement try_from_key gave
move_cursor(self, movement, oc) ==
    LET byte_i == get_byte_i(self.value, self.at)
        to(a)  == Outcome(self, self.value, self.value_len, a, "true", FALSE)
    IN  CASE movement = "PrevWord" /\ self.at # 0 ->
                to(get_char_i(self.value, find_word_left(self.value, byte_i)))
          [] movement = "Left" /\ self.at # 0 -> to(self.at - 1)
          [] movement = "NextWord" /\ self.at # self.value_len ->
                to(get_char_i(self.value, find_word_right(self.value, byte_i)))
          [] movement = "Right" /\ self.at # self.value_len ->
                IF Overflowed(self.at + 1) /\ oc
                THEN Outcome(self, self.value, self.value_len, self.at, "panic", FALSE)
                ELSE Outcome(self, self.value, self.value_len, Wrap(self.at + 1),
                             "true", Overflowed(self.at + 1))
          [] movement = "Home" /\ self.at # 0 -> to(0)
          [] movement = "End" /\ self.at # self.value_len -> to(self.value_len)
          [] OTHER -> Outcome(self, self.value, self.value_len, self.at, "false", FALSE)

\* The part of handle_key after the deletions: the insertion of a plain
\* char the filter accepts, else the cursor movement
insert_or_move(self, key, f, oc) ==
    IF /\ key.code = "Char"
       /\ key.mods \cap {"CONTROL", "ALT"} = {}
       /\ filter_map_char(f, key.ch).some
    THEN insert_char(self, filter_map_char(f, key.ch).c, oc)
    ELSE move_cursor(self, try_from_key(key), oc)

\* StringInput::handle_key
handle_key(self, key, f, oc) ==
    LET movement == is_delete_movement(self, key)
    IN  IF movement # "None"
        THEN delete_movement(self, movement, oc)
        ELSE insert_or_move(self, key, f, oc)

\* has_value as "the value is not empty"
has_value_nonempty(self) == self.value # <<>>

\* StringInput::has_value
has_value(self) == self.capacity > 0

\* finish without the test of has_value
finish_always_some(self) == Some(self.value)

\* StringInput::finish
finish(self) == IF has_value(self) THEN Some(self.value) ELSE None

\* set_value that copies the chars into the String the input already holds
set_value_keeps_capacity(self, s, cap) ==
    [value |-> s, value_len |-> Len(s), at |-> Len(s), capacity |-> self.capacity]

\* StringInput::set_value, with a String of the chars s and the capacity cap
set_value(self, s, cap) ==
    [value |-> s, value_len |-> Len(s), at |-> Len(s), capacity |-> cap]

\* Whether handle_key, called with this key, reaches the insertion
inserts(self, key, f) ==
    /\ is_delete_movement(self, key) = "None"
    /\ key.code = "Char"
    /\ key.mods \cap {"CONTROL", "ALT"} = {}
    /\ filter_map_char(f, key.ch).some

(***************************************************************************)
(* The display settings and the rendering.  `self` is here the record of   *)
(* the fields value, value_len, at, mask and hide_output.  The backend is  *)
(* an in-memory sink whose write_all appends the bytes and succeeds.       *)
(***************************************************************************)
\* StringInput::mask
mask_builder(self, c) == [self EXCEPT !.mask = Some(c)]

\* StringInput::hide_output
hide_output_builder(self) == [self EXCEPT !.hide_output = TRUE]

\* StringInput::password
password(self, m) ==
    IF m.some THEN mask_builder(self, m.c) ELSE hide_output_builder(self)

\* char::encode_utf8: the bytes of a char
encode_utf8(c) ==
    CASE c = "é" -> <<195, 169>>
      [] c = "d" -> <<100>>
      [] c = "u" -> <<117>>
      [] c = "w" -> <<119>>
      [] c = "k" -> <<107>>
      [] c = "C" -> <<67>>
      [] c = " " -> <<32>>
      [] c = "-" -> <<45>>
      [] c = "*" -> <<42>>
      [] c = "." -> <<46>>

RECURSIVE as_bytes(_)
\* str::as_bytes
as_bytes(s) == IF s = <<>> THEN <<>> ELSE encode_utf8(Head(s)) \o as_bytes(Tail(s))

RECURSIVE write_repeated(_, _)
\* The loop of print_mask: len calls of write_all(bytes)
write_repeated(len, bytes) ==
    IF len = 0 THEN <<>> ELSE bytes \o write_repeated(len - 1, bytes)

\* print_mask
print_mask(len, m) == write_repeated(len, encode_utf8(m))

\* What a render call leaves: the fields, the result ("Ok", "Err", or
\* "panic") and the bytes written to the backend
Rendered(self, r, bytes) ==
    [value |-> self.value, value_len |-> self.value_len, at |-> self.at,
     mask |-> self.mask, hide_output |-> self.hide_output,
     ret |-> r, written |-> bytes]

\* render with the width test before the test of hide_output
render_width_first(self, max_width) ==
    IF max_width <= 3 THEN Rendered(self, "Err", <<>>)
    ELSE IF self.hide_output THEN Rendered(self, "Ok", <<>>)
    ELSE IF self.value_len > max_width THEN Rendered(self, "panic", <<>>)
    ELSE IF self.mask.some
    THEN Rendered(self, "Ok", print_mask(self.value_len, self.mask.c))
    ELSE Rendered(self, "Ok", as_bytes(self.value))

\* render refusing only the widths below 3
render_narrow(self, max_width) ==
    IF self.hide_output THEN Rendered(self, "Ok", <<>>)
    ELSE IF max_width < 3 THEN Rendered(self, "Err", <<>>)
    ELSE IF self.value_len > max_width THEN Rendered(self, "panic", <<>>)
    ELSE IF self.mask.some
    THEN Rendered(self, "Ok", print_mask(self.value_len, self.mask.c))
    ELSE Rendered(self, "Ok", as_bytes(self.value))

\* render that drops the chars beyond max_width from the value
render_truncating(self, max_width) ==
    LET cut == [self EXCEPT !.value = SubSeq(self.value, 1, Min({Len(self.value), max_width})),
                            !.value_len = Min({self.value_len, max_width}),
                            !.at = Min({self.at, max_width})]
    IN  IF self.hide_output THEN Rendered(cut, "Ok", <<>>)
        ELSE IF max_width <= 3 THEN Rendered(cut, "Err", <<>>)
        ELSE IF self.mask.some
        THEN Rendered(cut, "Ok", print_mask(cut.value_len, self.mask.c))
        ELSE Rendered(cut, "Ok", as_bytes(cut.value))

\* StringInput::render
render(self, max_width) ==
    IF self.hide_output THEN Rendered(self, "Ok", <<>>)
    ELSE IF max_width <= 3 THEN Rendered(self, "Err", <<>>)
    ELSE IF self.value_len > max_width THEN Rendered(self, "panic", <<>>)
    ELSE IF self.mask.some
    THEN Rendered(self, "Ok", print_mask(self.value_len, self.mask.c))
    ELSE Rendered(self, "Ok", as_bytes(self.value))

\* What a render call of a plain string leaves: the result and the bytes
\* written to the backend
Written(r, bytes) == [ret |-> r, written |-> bytes]

\* The render of a plain string cutting at the byte max_width - 3
render_str_bytes(s, max_width) ==
    IF max_width <= 3 THEN Written("Err", <<>>)
    ELSE IF Len(s) > max_width
    THEN Written("Ok", SubSeq(as_bytes(s), 1, max_width - 3) \o as_bytes(<<".", ".", ".">>))
    ELSE Written("Ok", as_bytes(s))

\* The render of a plain string writing a string that fits before it
\* tests the width
render_str_fit_first(s, max_width) ==
    IF Len(s) <= max_width THEN Written("Ok", as_bytes(s))
    ELSE IF max_width <= 3 THEN Written("Err", <<>>)
    ELSE Written("Ok", SubSeq(as_bytes(s), 1, ByteOffset(s, max_width - 3))
                       \o as_bytes(<<".", ".", ".">>))

\* impl<T: AsRef<str>> Widget for T :: render.  s.chars().count() is
\* Len(s); s[..byte_i] is the first byte_i bytes of s
render_str(s, max_width) ==
    IF max_width <= 3 THEN Written("Err", <<>>)
    ELSE IF Len(s) > max_width
    THEN LET byte_i == ByteOffset(s, max_width - 3)
         IN  Written("Ok", SubSeq(as_bytes(s), 1, byte_i) \o as_bytes(<<".", ".", ".">>))
    ELSE Written("Ok", as_bytes(s))

\* u16 has 16 bits
U16Mod == 2 ^ 16

\* StringInput::cursor_pos: `self.at as u16` truncates to 16 bits, and the
\* sum is a u16 addition
cursor_pos(self, prompt_len, oc) ==
    LET col == prompt_len + (self.at % U16Mod)
    IN  IF self.hide_output THEN [ret |-> "ok", pos |-> <<prompt_len, 0>>]
        ELSE IF col >= U16Mod /\ oc THEN [ret |-> "panic"]
        ELSE [ret |-> "ok", pos |-> <<col % U16Mod, 0>>]

(***************************************************************************)
(* CharInput (src/discourse-ui/src/char_input.rs).  `self` is the record   *)
(* of the fields value, an Option<char>, and filter_map.  A Layout is the  *)
(* record of its fields; its line_offset is a u16.                         *)
(***************************************************************************)
\* CharInput::with_filter_map
with_filter_map(f) == [value |-> None, filter_map |-> f]

\* CharInput::set_value
char_set_value(self, c) == [self EXCEPT !.value = Some(c)]

\* CharInput::clear_value
clear_value(self) == [self EXCEPT !.value = None]

\* What a handle_key call of a CharInput leaves: the fields and the result
Handled(self, v, r) == [value |-> v, filter_map |-> self.filter_map, ret |-> r]

\* handle_key that keeps the first char it accepted
char_handle_key_keep_first(self, key) ==
    CASE key.code = "Char" ->
            IF filter_map_char(self.filter_map, key.ch).some
            THEN Handled(self, IF self.value.some THEN self.value
                               ELSE filter_map_char(self.filter_map, key.ch), "true")
            ELSE Handled(self, self.value, "false")
      [] key.code \in {"Backspace", "Delete"} /\ self.value.some ->
            Handled(self, None, "true")
      [] OTHER -> Handled(self, self.value, "false")

\* handle_key whose Backspace and Delete do not look at the value
char_handle_key_delete_always(self, key) ==
    CASE key.code = "Char" ->
            IF filter_map_char(self.filter_map, key.ch).some
            THEN Handled(self, filter_map_char(self.filter_map, key.ch), "true")
            ELSE Handled(self, self.value, "false")
      [] key.code \in {"Backspace", "Delete"} -> Handled(self, None, "true")
      [] OTHER -> Handled(self, self.value, "false")

\* handle_key that clears the value on a char the filter rejects
char_handle_key_reject_clears(self, key) ==
    CASE key.code = "Char" ->
            IF filter_map_char(self.filter_map, key.ch).some
            THEN Handled(self, filter_map_char(self.filter_map, key.ch), "true")
            ELSE Handled(self, None, "false")
      [] key.code \in {"Backspace", "Delete"} /\ self.value.some ->
            Handled(self, None, "true")
      [] OTHER -> Handled(self, self.value, "false")

\* CharInput::handle_key
char_handle_key(self, key) ==
    CASE key.code = "Char" ->
            IF filter_map_char(self.filter_map, key.ch).some
            THEN Handled(self, filter_map_char(self.filter_map, key.ch), "true")
            ELSE Handled(self, self.value, "false")
      [] key.code \in {"Backspace", "Delete"} /\ self.value.some ->
            Handled(self, None, "true")
      [] OTHER -> Handled(self, self.value, "false")

\* What a render call of a CharInput leaves: the result ("Ok" or "panic"),
\* the layout and the bytes written to the backend
Drawn(r, layout, bytes) == [ret |-> r, layout |-> layout, written |-> bytes]

\* render that writes the char and leaves the layout alone
char_render_keeps_layout(self, layout, oc) ==
    IF self.value.some
    THEN Drawn("Ok", layout, encode_utf8(self.value.c))
    ELSE Drawn("Ok", layout, <<>>)

\* CharInput::render: `layout.line_offset += 1` is a u16 addition
char_render(self, layout, oc) ==
    IF self.value.some
    THEN IF layout.line_offset + 1 >= U16Mod /\ oc
         THEN Drawn("panic", layout, <<>>)
         ELSE Drawn("Ok",
                    [layout EXCEPT !.line_offset = (layout.line_offset + 1) % U16Mod],
                    encode_utf8(self.value.c))
    ELSE Drawn("Ok", layout, <<>>)

\* cursor_pos that gives the position of the char, not the one after it
char_cursor_pos_at_char(self, layout, oc) ==
    [ret |-> "ok", pos |-> <<layout.line_offset, 0>>]

\* CharInput::cursor_pos: `self.value.is_some() as u16` is 0 or 1, and the
\* sum is a u16 addition
char_cursor_pos(self, layout, oc) ==
    LET col == layout.line_offset + (IF self.value.some THEN 1 ELSE 0)
    IN  IF col >= U16Mod /\ oc THEN [ret |-> "panic", pos |-> <<>>]
        ELSE [ret |-> "ok", pos |-> <<col % U16Mod, 0>>]

\* MultiSelect::default
MultiSelectDefault ==
    [choices |-> <<>>, selected |-> <<>>, filter |-> "None", validate |-> "None",
     at |-> 0]

(***************************************************************************)
(* MultiSelect (src/src/question/multi_select/mod.rs).  `self` is the      *)
(* record of choices (each "Choice" or "Separator"), selected, filter and  *)
(* validate ("None" or "Sync"), and at, the index of the Select widget     *)
(* (0-based, as in the code; the sequences are 1-based).                   *)
(***************************************************************************)
\* MultiSelectBuilder::choice_with_default
choice_with_default(self, default) ==
    [self EXCEPT !.choices = Append(@, "Choice"), !.selected = Append(@, default)]

\* MultiSelectBuilder::separator, MultiSelectBuilder::default_separator
separator(self) ==
    [self EXCEPT !.choices = Append(@, "Separator"), !.selected = Append(@, FALSE)]

\* MultiSelectBuilder::choice
choice(self) == choice_with_default(self, FALSE)

\* MultiSelectBuilder::default_separator
default_separator(self) ==
    [self EXCEPT !.choices = Append(@, "Separator"), !.selected = Append(@, FALSE)]

\* Vec::resize(new_len, value)
resize(v, new_len, x) ==
    IF new_len <= Len(v) THEN SubSeq(v, 1, new_len)
    ELSE v \o [i \in 1..(new_len - Len(v)) |-> x]

\* choices that extends the choices and leaves selected as it is
builder_choices_without_resize(self, cs) == [self EXCEPT !.choices = @ \o cs]

\* MultiSelectBuilder::choices (`choices` names a field here): cs is the
\* sequence of the kinds of the entries given
builder_choices(self, cs) ==
    [self EXCEPT !.choices = @ \o cs,
                 !.selected = resize(@, Len(self.choices \o cs), FALSE)]

RECURSIVE choices_with_default(_, _)
\* MultiSelectBuilder::choices_with_default: cs is the sequence of the
\* entries given, a Choice with its default or a separator; the loop
\* pushes them one by one
choices_with_default(self, cs) ==
    IF cs = <<>> THEN self
    ELSE choices_with_default(
             IF Head(cs).kind = "Choice"
             THEN [self EXCEPT !.choices = Append(@, "Choice"),
                               !.selected = Append(@, Head(cs).selected)]
             ELSE [self EXCEPT !.choices = Append(@, "Separator"),
                               !.selected = Append(@, FALSE)],
             Tail(cs))

\* is_selectable
is_selectable(self, index) == self.choices[index + 1] # "Separator"

\* set_seperators_false that leaves selected as it is
set_seperators_unchanged(selected, choices) == selected

\* set_seperators_false
set_seperators_false(selected, choices) ==
    [i \in 1..Len(selected) |->
        IF i <= Len(choices)
        THEN selected[i] /\ ~(choices[i] = "Separator")
        ELSE selected[i]]

\* Select::handle_key: the arrow keys move the Select to the selectable
\* index `to`; no other key is handled
select_handle_key(self, key, to) ==
    IF key.code \in {"Up", "Down"}
    THEN [self |-> [self EXCEPT !.at = to], ret |-> "true"]
    ELSE [self |-> self, ret |-> "false"]

\* MultiSelectPrompt::handle_key
ms_handle_key(self, key, to) ==
    CASE IsChar(key, " ") ->
            [self |-> [self EXCEPT !.selected[self.at + 1] = ~self.selected[self.at + 1]],
             ret |-> "true"]
      [] IsChar(key, "i") ->
            [self |-> [self EXCEPT !.selected =
                          [i \in 1..Len(self.selected) |-> ~self.selected[i]]],
             ret |-> "true"]
      [] IsChar(key, "a") ->
            LET select_state == \E i \in 1..Len(self.selected) : ~self.selected[i]
            IN  [self |-> [self EXCEPT !.selected =
                              [i \in 1..Len(self.selected) |-> select_state]],
                 ret |-> "true"]
      [] OTHER -> select_handle_key(self, key, to)

\* MultiSelectPrompt::validate, with what the user's function answers when
\* it is called: `seen` is the slice it is given
ms_validate(self, user_ok) ==
    IF self.validate = "Sync"
    THEN LET cleared == set_seperators_false(self.selected, self.choices)
         IN  [self |-> [self EXCEPT !.selected = cleared],
              seen |-> Some(cleared),
              ret  |-> IF user_ok THEN "Finish" ELSE "Err"]
    ELSE [self |-> self, seen |-> None, ret |-> "Finish"]

\* The user's filter functions: one returns the vector it is given, one
\* inverts it, one drops its last entry
user_filter(f, selected) ==
    CASE f = "invert" -> [i \in 1..Len(selected) |-> ~selected[i]]
      [] f = "drop_last" -> SubSeq(selected, 1, Len(selected) - 1)
      [] OTHER -> selected

\* selected.into_iter().enumerate().zip(choices): the triples of index
\* (0-based), flag and entry, as long as the shorter of the two
Zipped(selected, choices) ==
    [j \in 1..Min({Len(selected), Len(choices)}) |->
        [index |-> j - 1, is_selected |-> selected[j], name |-> choices[j]]]

\* create_list_items keeping every entry that is selected
create_list_items_of_any_kind(selected, choices) ==
    LET Keep(e) == e.is_selected
        kept    == SelectSeq(Zipped(selected, choices), Keep)
    IN  [k \in 1..Len(kept) |-> kept[k].index]

\* create_list_items: the indices of the ListItems, in the order of the
\* vector returned
create_list_items(selected, choices) ==
    LET Keep(e) == e.is_selected /\ e.name = "Choice"
        kept    == SelectSeq(Zipped(selected, choices), Keep)
    IN  [k \in 1..Len(kept) |-> kept[k].index]

\* MultiSelectPrompt::finish, with the user's filter function f
ms_finish(self, f) ==
    IF self.filter = "Sync"
    THEN LET cleared == set_seperators_false(self.selected, self.choices)
         IN  [seen |-> Some(cleared),
              ret  |-> create_list_items(user_filter(f, cleared), self.choices)]
    ELSE [seen |-> None, ret |-> create_list_items(self.selected, self.choices)]

(***************************************************************************)
(* Question::ask (src/src/question/mod.rs).  A question is the record of   *)
(* the options name, message, ask_if_answered and when; `answered` is the  *)
(* set of the keys of the Answers; `outcome` is what the prompt of the     *)
(* question gives when it is run: "Some" (an answer), "None" or "Err".     *)
(***************************************************************************)
\* The getters of `when`: a value, or a function of the answers
get_when(w, answered) ==
    CASE w = "true" -> TRUE
      [] w = "false" -> FALSE
      [] w = "has_answers" -> answered # {}

\* What a call of ask gives: the result, whether `when` was evaluated and
\* the prompt run, the message handed to the prompt, and the key of the
\* pair returned
Asked(r, w, p, msg, key) ==
    [ret |-> r, when_evaluated |-> w, prompted |-> p, message |-> msg, key |-> key]

\* The message handed to the prompt
ask_message(q) == IF q.message.some THEN q.message.c ELSE q.name \o ":"

\* The prompt of the question run, and its result paired with the name
ask_kind(q, outcome) ==
    CASE outcome = "Err" -> Asked("Err", TRUE, TRUE, Some(ask_message(q)), None)
      [] outcome = "None" -> Asked("Ok(None)", TRUE, TRUE, Some(ask_message(q)), None)
      [] outcome = "Some" -> Asked("Ok(Some)", TRUE, TRUE, Some(ask_message(q)), Some(q.name))

\* ask skipping every question that is answered
ask_skips_answered(q, answered, outcome) ==
    IF q.name \in answered THEN Asked("Ok(None)", FALSE, FALSE, None, None)
    ELSE IF ~get_when(q.when, answered) THEN Asked("Ok(None)", TRUE, FALSE, None, None)
    ELSE ask_kind(q, outcome)

\* ask running the prompt whatever `when` gives
ask_whatever_when(q, answered, outcome) ==
    IF ~q.ask_if_answered /\ q.name \in answered THEN Asked("Ok(None)", FALSE, FALSE, None, None)
    ELSE ask_kind(q, outcome)

\* Question::ask
ask(q, answered, outcome) ==
    IF ~q.ask_if_answered /\ q.name \in answered THEN Asked("Ok(None)", FALSE, FALSE, None, None)
    ELSE IF ~get_when(q.when, answered) THEN Asked("Ok(None)", TRUE, FALSE, None, None)
    ELSE ask_kind(q, outcome)

(***************************************************************************)
(* Input and InputPrompt (src/src/question/input.rs).  `opts` is the       *)
(* record of the fields default (None or Some of the chars) and validate   *)
(* ("None" or "Sync") of the Input; `self` is the StringInput of the       *)
(* prompt.                                                                 *)
(***************************************************************************)
\* Input::default
InputDefault == [default |-> None, validate |-> "None"]

\* InputBuilder::default
input_default(opts, s) == [opts EXCEPT !.default = Some(s)]

\* Input::ask, before the prompt is run: the default is put in parentheses
input_ask(opts) ==
    IF opts.default.some
    THEN [opts EXCEPT !.default = Some(<<"(">> \o opts.default.c \o <<")">>)]
    ELSE opts

\* remove_brackets: String::remove(0) panics on the empty String,
\* String::pop leaves it empty
remove_brackets(s) ==
    IF s = <<>> THEN [ret |-> "panic"]
    ELSE [ret |-> "ok", ans |-> SubSeq(Tail(s), 1, Len(Tail(s)) - 1)]

\* InputPrompt::validate, with what the user's function answers when it is
\* called
input_validate(opts, self, user_ok) ==
    IF ~has_value(self)
    THEN IF opts.default.some THEN "Finish" ELSE "Err"
    ELSE IF opts.validate = "Sync" /\ ~user_ok THEN "Err"
    ELSE "Finish"

\* finish taking the default whenever the input is empty
input_finish_default_if_empty(opts, self) ==
    IF self.value # <<>> THEN [ret |-> "ok", ans |-> self.value]
    ELSE IF ~opts.default.some THEN [ret |-> "panic"]
    ELSE remove_brackets(opts.default.c)

\* InputPrompt::finish, before the filter
input_finish(opts, self) ==
    IF finish(self).some THEN [ret |-> "ok", ans |-> finish(self).c]
    ELSE IF ~opts.default.some THEN [ret |-> "panic"]
    ELSE remove_brackets(opts.default.c)

(***************************************************************************)
(* The state: one StringInput and what its caller has seen of it.          *)
(***************************************************************************)
VARIABLES
    value,            \* StringInput::value, as the sequence of its chars
    value_len,        \* StringInput::value_len
    at,               \* StringInput::at
    capacity,         \* value.capacity(), in bytes
    filter,           \* StringInput::filter_map_char, one of Filters
    overflow_checks,  \* whether the build panics on overflow (debug) or wraps
    pc,               \* "live", "panicked" (a call panicked) or "finished"
    ret,              \* what the last handle_key call returned; "none" at first
    result,           \* what finish returned; Pending before
    accepted,         \* history: some handle_key call has inserted a char
    since_wrap,       \* history: the number of handle_key calls made from the
                      \* first one with a wrapped operation on
    before_insert,    \* history: the fields before the last call, when that
                      \* call inserted a char; NoInsert otherwise
    last_set,         \* history: the argument of the last call, when that call
                      \* was set_value; NoSet otherwise
    mask,             \* StringInput::mask: None or Some(char)
    hide_output,      \* StringInput::hide_output
    call,             \* history: the last call, when it was render or
                      \* cursor_pos, with its arguments, the fields before it
                      \* and what it gave; NoCall otherwise
    char_input,       \* a CharInput: its fields value and filter_map
    multi_select,     \* a MultiSelectPrompt: the fields choices, selected,
                      \* filter and validate of its MultiSelect, and the index
                      \* at of its Select
    answers,          \* the Answers: the names of the questions answered
    input_opts        \* the Input of an InputPrompt: its fields default and
                      \* validate

vars == <<value, value_len, at, capacity, filter, overflow_checks, pc, ret,
          result, accepted, since_wrap, before_insert, last_set, mask,
          hide_output, call, char_input, multi_select, answers, input_opts>>

\* The variables of the StringInput, but for the history call
string_input == <<value, value_len, at, capacity, filter, ret, result, accepted,
                  since_wrap, before_insert, last_set, mask, hide_output>>

\* The variables of the other widgets and of the questions
others == <<char_input, multi_select, answers, input_opts>>

Self == [value |-> value, value_len |-> value_len, at |-> at, capacity |-> capacity]

Pending == [pending |-> TRUE]

NoInsert == [inserted |-> FALSE]

NoSet == [set |-> FALSE]

NoCall == [op |-> "none"]

\* The fields render and cursor_pos read
View ==
    [value |-> value, value_len |-> value_len, at |-> at, mask |-> mask,
     hide_output |-> hide_output]

\* StringInput::new, in a program that has not panicked
InitStringInput ==
    /\ value = <<>>
    /\ value_len = 0
    /\ at = 0
    /\ capacity = 0
    /\ filter \in Filters
    /\ overflow_checks \in BOOLEAN
    /\ pc = "live"
    /\ ret = "none"
    /\ result = Pending
    /\ accepted = FALSE
    /\ since_wrap = 0
    /\ before_insert = NoInsert
    /\ last_set = NoSet
    /\ mask = None
    /\ hide_output = FALSE
    /\ call = NoCall

\* StringInput::new, beside a CharInput::new, a MultiSelect::default and no
\* answers
Init ==
    /\ InitStringInput
    /\ char_input = with_filter_map("no_filter")
    /\ multi_select = MultiSelectDefault
    /\ answers = {}
    /\ input_opts = InputDefault

\* One call of handle_key
HandleKey(key) ==
    /\ pc = "live"
    /\ \E o \in {handle_key(Self, key, filter, overflow_checks)} :
        /\ Len(o.value) <= MaxLen \/ Len(o.value) <= Len(value)
        /\ since_wrap + (IF o.wrapped \/ since_wrap > 0 THEN 1 ELSE 0) <= MaxAfterWrap
        /\ value' = o.value
        /\ value_len' = o.value_len
        /\ at' = o.at
        /\ capacity' = o.capacity
        /\ ret' = o.ret
        /\ pc' = IF o.ret = "panic" THEN "panicked" ELSE "live"
        /\ accepted' = (accepted \/ inserts(Self, key, filter))
        /\ since_wrap' = since_wrap + (IF o.wrapped \/ since_wrap > 0 THEN 1 ELSE 0)
        /\ before_insert' =
              IF inserts(Self, key, filter) /\ o.ret = "true"
              THEN [inserted |-> TRUE, value |-> value, value_len |-> value_len,
                    at |-> at]
              ELSE NoInsert
        /\ last_set' = NoSet
        /\ call' = NoCall
        /\ UNCHANGED <<filter, overflow_checks, result, mask, hide_output, others>>

\* The call of finish, which consumes the StringInput: its fields are gone
Finish ==
    /\ pc = "live"
    /\ result' = finish(Self)
    /\ pc' = "finished"
    /\ value' = <<>>
    /\ value_len' = 0
    /\ at' = 0
    /\ capacity' = 0
    /\ ret' = "none"
    /\ before_insert' = NoInsert
    /\ call' = NoCall
    /\ UNCHANGED <<filter, overflow_checks, accepted, since_wrap, last_set, mask,
                   hide_output, others>>

RECURSIVE Strings(_, _)
\* The sequences of at most n chars of the set S
Strings(S, n) ==
    IF n = 0 THEN {<<>>}
    ELSE Strings(S, n - 1)
         \cup {Append(s, c) : s \in {x \in Strings(S, n - 1) : Len(x) = n - 1}, c \in S}

\* The chars of the Strings handed to set_value
SetChars == {"d", "é"}

\* The Strings handed to set_value, each with its chars and its capacity:
\* String::new(), which has no allocation, and Strings grown from it by
\* pushes (and pops, for the empty one), which hold the capacity of their
\* first allocation
SetValueInputs ==
    {[s |-> <<>>, cap |-> 0]}
    \cup {[s |-> s, cap |-> Max({ByteLen(s), MinNonZeroCap})] :
            s \in Strings(SetChars, MaxSetLen)}

\* One call of set_value
SetValue(in) ==
    /\ pc = "live"
    /\ \E o \in {set_value(Self, in.s, in.cap)} :
        /\ value' = o.value
        /\ value_len' = o.value_len
        /\ at' = o.at
        /\ capacity' = o.capacity
    /\ last_set' = [set |-> TRUE, s |-> in.s, cap |-> in.cap]
    /\ before_insert' = NoInsert
    /\ call' = NoCall
    /\ UNCHANGED <<filter, overflow_checks, pc, ret, result, accepted, since_wrap,
                   mask, hide_output, others>>

\* The mask chars handed to mask and password: one of one byte, one of two
MaskChars == {"*", "é"}

\* One call of the builder mask
Mask(c) ==
    /\ pc = "live"
    /\ \E o \in {mask_builder(View, c)} :
        /\ mask' = o.mask
        /\ hide_output' = o.hide_output
    /\ call' = NoCall
    /\ UNCHANGED <<value, value_len, at, capacity, filter, overflow_checks, pc, ret,
                   result, accepted, since_wrap, before_insert, last_set, others>>

\* One call of the builder hide_output
HideOutput ==
    /\ pc = "live"
    /\ \E o \in {hide_output_builder(View)} :
        /\ mask' = o.mask
        /\ hide_output' = o.hide_output
    /\ call' = NoCall
    /\ UNCHANGED <<value, value_len, at, capacity, filter, overflow_checks, pc, ret,
                   result, accepted, since_wrap, before_insert, last_set, others>>

\* One call of the builder password
Password(m) ==
    /\ pc = "live"
    /\ \E o \in {password(View, m)} :
        /\ mask' = o.mask
        /\ hide_output' = o.hide_output
    /\ call' = NoCall
    /\ UNCHANGED <<value, value_len, at, capacity, filter, overflow_checks, pc, ret,
                   result, accepted, since_wrap, before_insert, last_set, others>>

\* One call of render on a backend that has nothing written yet
Render(max_width) ==
    /\ pc = "live"
    /\ \E o \in {render(View, max_width)} :
        /\ value' = o.value
        /\ value_len' = o.value_len
        /\ at' = o.at
        /\ mask' = o.mask
        /\ hide_output' = o.hide_output
        /\ pc' = IF o.ret = "panic" THEN "panicked" ELSE "live"
        /\ call' = [op |-> "render", arg |-> max_width, before |-> View,
                    ret |-> o.ret, written |-> o.written]
    /\ before_insert' = NoInsert
    /\ last_set' = NoSet
    /\ UNCHANGED <<capacity, filter, overflow_checks, ret, result, accepted,
                   since_wrap, others>>

\* One call of cursor_pos, which borrows the StringInput immutably
CursorPos(prompt_len) ==
    /\ pc = "live"
    /\ \E o \in {cursor_pos(View, prompt_len, overflow_checks)} :
        /\ pc' = IF o.ret = "panic" THEN "panicked" ELSE "live"
        /\ call' = [op |-> "cursor_pos", arg |-> prompt_len, before |-> View,
                    ret |-> o.ret,
                    written |-> IF o.ret = "ok" THEN o.pos ELSE <<>>]
    /\ before_insert' = NoInsert
    /\ last_set' = NoSet
    /\ UNCHANGED <<value, value_len, at, capacity, filter, overflow_checks, ret,
                   result, accepted, since_wrap, mask, hide_output, others>>

Next ==
    \/ \E key \in KeyEvents : HandleKey(key)
    \/ Finish

NextSetValue ==
    \/ \E key \in KeyEvents : HandleKey(key)
    \/ \E in \in SetValueInputs : SetValue(in)
    \/ Finish

\* The keys typed before a rendering: two chars, one of them of two bytes,
\* Backspace, Left and Ctrl+W
RenderKeys ==
    {k \in KeyEvents :
        \/ k.code = "Char" /\ k.ch \in {"d", "é"} /\ k.mods = {}
        \/ k.code \in {"Backspace", "Left"} /\ k.mods = {}
        \/ IsChar(k, "w") /\ k.mods = {"CONTROL"}}

\* A default value of MaxLen + 2 chars for set_value, longer than the
\* narrowest width render accepts
LongValue == [i \in 1..(MaxLen + 2) |-> IF i = 1 THEN "é" ELSE "d"]

LongValueInputs == {[s |-> LongValue, cap |-> ByteLen(LongValue)]}

\* The widths handed to render: below and at the refused width 3, the
\* narrowest accepted width, and the width of LongValue
Widths == {0, 3, 4, MaxLen + 2}

\* The prompt lengths handed to cursor_pos: none, a short prompt, and the
\* largest u16
PromptLens == {0, 2, U16Mod - 1}

NextRender ==
    \/ \E key \in RenderKeys : HandleKey(key)
    \/ \E in \in LongValueInputs : SetValue(in)
    \/ \E c \in MaskChars : Mask(c)
    \/ HideOutput
    \/ \E m \in {None} \cup {Some(c) : c \in MaskChars} : Password(m)
    \/ \E max_width \in Widths : Render(max_width)
    \/ \E prompt_len \in PromptLens : CursorPos(prompt_len)

\* StringInput::default, which has no filter
InitRender == Init /\ filter = "no_filter"

\* A StringInput made by default, configured by the builders, given a
\* value by set_value or handle_key, and shown by render and cursor_pos
SpecRender == InitRender /\ [][NextRender]_vars

\* One call of render on a plain string and a backend that has nothing
\* written yet
RenderStr(s, max_width) ==
    /\ \E o \in {render_str(s, max_width)} :
        call' = [op |-> "render_str", arg |-> max_width, before |-> [value |-> s],
                 ret |-> o.ret, written |-> o.written]
    /\ UNCHANGED <<string_input, overflow_checks, pc, others>>

\* The plain strings rendered: up to MaxLen + 3 chars, "é" among them
StrValues == Strings(SetChars, MaxLen + 3)

\* The widths handed to the render of a plain string
StrWidths == {0, 3, 4, 5, MaxLen + 3}

NextStr == \E s \in StrValues, max_width \in StrWidths : RenderStr(s, max_width)

\* Plain strings rendered as widgets
SpecStr == InitRender /\ [][NextStr]_vars

\* One call of handle_key of the CharInput
CharHandleKey(key) ==
    /\ pc = "live"
    /\ \E o \in {char_handle_key(char_input, key)} :
        /\ char_input' = [value |-> o.value, filter_map |-> o.filter_map]
        /\ call' = [op |-> "char_handle_key", arg |-> key, before |-> char_input,
                    ret |-> o.ret]
    /\ UNCHANGED <<string_input, overflow_checks, pc, multi_select, answers, input_opts>>

\* The chars handed to CharInput::set_value
CharValues == {"d", "é"}

\* One call of CharInput::set_value
CharSetValue(c) ==
    /\ pc = "live"
    /\ char_input' = char_set_value(char_input, c)
    /\ call' = NoCall
    /\ UNCHANGED <<string_input, overflow_checks, pc, multi_select, answers, input_opts>>

\* One call of CharInput::clear_value
CharClearValue ==
    /\ pc = "live"
    /\ char_input' = clear_value(char_input)
    /\ call' = NoCall
    /\ UNCHANGED <<string_input, overflow_checks, pc, multi_select, answers, input_opts>>

\* The layouts handed to render and cursor_pos: the line offsets 0 and 5 of
\* the tests and the largest u16, in a terminal of 30 x 10 or 100 x 20
Layouts ==
    {[line_offset |-> l, offset_x |-> 0, offset_y |-> 0, width |-> sz[1],
      height |-> sz[2]] :
        l \in {0, 5, U16Mod - 1}, sz \in {<<30, 10>>, <<100, 20>>}}

\* One call of render of the CharInput, on a backend that has nothing
\* written yet
CharRender(layout) ==
    /\ pc = "live"
    /\ \E o \in {char_render(char_input, layout, overflow_checks)} :
        /\ pc' = IF o.ret = "panic" THEN "panicked" ELSE "live"
        /\ call' = [op |-> "char_render", arg |-> layout, before |-> char_input,
                    ret |-> o.ret, layout |-> o.layout, written |-> o.written]
    /\ UNCHANGED <<string_input, overflow_checks, others>>

\* One call of cursor_pos of the CharInput
CharCursorPos(layout) ==
    /\ pc = "live"
    /\ \E o \in {char_cursor_pos(char_input, layout, overflow_checks)} :
        /\ pc' = IF o.ret = "panic" THEN "panicked" ELSE "live"
        /\ call' = [op |-> "char_cursor_pos", arg |-> layout, before |-> char_input,
                    ret |-> o.ret, pos |-> o.pos]
    /\ UNCHANGED <<string_input, overflow_checks, others>>

NextChar ==
    \/ \E key \in KeyEvents : CharHandleKey(key)
    \/ \E c \in CharValues : CharSetValue(c)
    \/ CharClearValue
    \/ \E layout \in Layouts : CharRender(layout)
    \/ \E layout \in Layouts : CharCursorPos(layout)

\* CharInput::new or CharInput::with_filter_map, beside an untouched
\* StringInput
InitChar ==
    /\ InitStringInput
    /\ filter = "no_filter"
    /\ char_input \in {with_filter_map(f) : f \in Filters}
    /\ multi_select = MultiSelectDefault
    /\ answers = {}
    /\ input_opts = InputDefault

\* A CharInput driven by its keys, set_value and clear_value, and shown by
\* render and cursor_pos
SpecChar == InitChar /\ [][NextChar]_vars

\* The keys of the MultiSelectPrompt: space, 'i', 'a', a char without a
\* meaning, and the arrows
MultiSelectKeys ==
    {[code |-> "Char", ch |-> c, mods |-> {}] : c \in {" ", "i", "a", "d"}}
    \cup {[code |-> c, ch |-> "", mods |-> {}] : c \in {"Up", "Down"}}

\* The indices the Select can be at: the selectable ones
Selectable(self) == {i \in 0..(Len(self.choices) - 1) : is_selectable(self, i)}

\* One call of handle_key of the MultiSelectPrompt; `to` is where the
\* Select goes on an arrow key
MultiSelectHandleKey(key, to) ==
    /\ pc = "live"
    /\ to \in Selectable(multi_select)
    /\ \E o \in {ms_handle_key(multi_select, key, to)} :
        /\ multi_select' = o.self
        /\ call' = [op |-> "ms_handle_key", arg |-> key, before |-> multi_select,
                    ret |-> o.ret]
    /\ UNCHANGED <<string_input, overflow_checks, pc, char_input, answers,
                 input_opts>>

\* One call of validate of the MultiSelectPrompt, on Enter
MultiSelectValidate(user_ok) ==
    /\ pc = "live"
    /\ \E o \in {ms_validate(multi_select, user_ok)} :
        /\ multi_select' = o.self
        /\ call' = [op |-> "ms_validate", arg |-> user_ok, before |-> multi_select,
                    ret |-> o.ret, seen |-> o.seen]
    /\ UNCHANGED <<string_input, overflow_checks, pc, char_input, answers,
                 input_opts>>

\* The call of finish of the MultiSelectPrompt, which follows a validate
\* that gave Validation::Finish and consumes the prompt
MultiSelectFinish(f) ==
    /\ pc = "live"
    /\ call.op = "ms_validate"
    /\ call.ret = "Finish"
    /\ \E o \in {ms_finish(multi_select, f)} :
        call' = [op |-> "ms_finish", arg |-> f, before |-> multi_select,
                 ret |-> o.ret, seen |-> o.seen]
    /\ pc' = "finished"
    /\ UNCHANGED <<string_input, overflow_checks, others>>

NextMultiSelect ==
    \/ \E key \in MultiSelectKeys, to \in 0..(MaxChoices - 1) :
            MultiSelectHandleKey(key, to)
    \/ \E user_ok \in BOOLEAN : MultiSelectValidate(user_ok)
    \/ \E f \in {"identity", "invert", "drop_last"} : MultiSelectFinish(f)

RECURSIVE Built(_)
\* The MultiSelects the builder makes with at most n calls of
\* choice_with_default and separator
Built(n) ==
    IF n = 0 THEN {MultiSelectDefault}
    ELSE Built(n - 1)
         \cup {choice_with_default(m, d) :
                  m \in {x \in Built(n - 1) : Len(x.choices) = n - 1}, d \in BOOLEAN}
         \cup {separator(m) : m \in {x \in Built(n - 1) : Len(x.choices) = n - 1}}

\* A MultiSelect built with at least one choice, with or without a filter
\* and a validate function, in a Select at its first selectable index
InitMultiSelect ==
    /\ InitStringInput
    /\ filter = "no_filter"
    /\ overflow_checks = TRUE
    /\ char_input = with_filter_map("no_filter")
    /\ answers = {}
    /\ input_opts = InputDefault
    /\ \E m \in Built(MaxChoices), fl \in {"None", "Sync"}, vl \in {"None", "Sync"} :
        /\ Selectable(m) # {}
        /\ multi_select = [m EXCEPT !.filter = fl, !.validate = vl,
                                    !.at = Min(Selectable(m))]

\* A MultiSelectPrompt driven by its keys until validate and finish
SpecMultiSelect == InitMultiSelect /\ [][NextMultiSelect]_vars

\* The sequences of at most n elements of S
Lists(S, n) == UNION {[1..k -> S] : k \in 0..n}

\* The entries given to choices_with_default
DefaultEntries == [kind : {"Choice"}, selected : BOOLEAN] \cup {[kind |-> "Separator"]}

\* One call of a method of the builder, which makes the MultiSelect `made`
\* of the current one
BuilderCall(op, arg, made) ==
    /\ pc = "live"
    /\ Len(made.choices) <= MaxChoices
    /\ multi_select' = made
    /\ call' = [op |-> op, arg |-> arg, before |-> multi_select]
    /\ UNCHANGED <<string_input, overflow_checks, pc, char_input, answers,
                 input_opts>>

BuilderChoice == BuilderCall("choice", <<>>, choice(multi_select))

BuilderChoiceWithDefault(default) ==
    BuilderCall("choice_with_default", default, choice_with_default(multi_select, default))

BuilderSeparator == BuilderCall("separator", <<>>, separator(multi_select))

BuilderDefaultSeparator ==
    BuilderCall("default_separator", <<>>, default_separator(multi_select))

BuilderChoices(cs) == BuilderCall("choices", cs, builder_choices(multi_select, cs))

BuilderChoicesWithDefault(cs) ==
    BuilderCall("choices_with_default", cs, choices_with_default(multi_select, cs))

NextBuilder ==
    \/ BuilderChoice
    \/ \E default \in BOOLEAN : BuilderChoiceWithDefault(default)
    \/ BuilderSeparator
    \/ BuilderDefaultSeparator
    \/ \E cs \in Lists({"Choice", "Separator"}, MaxChoices) : BuilderChoices(cs)
    \/ \E cs \in Lists(DefaultEntries, MaxChoices) : BuilderChoicesWithDefault(cs)

\* MultiSelectBuilder::new
InitBuilder == InitRender /\ overflow_checks = TRUE

\* A MultiSelectBuilder and the calls of its methods that add entries
SpecBuilder == InitBuilder /\ [][NextBuilder]_vars

\* One call of validate of the InputPrompt, on Enter
InputValidate(user_ok) ==
    /\ pc = "live"
    /\ call' = [op |-> "input_validate", arg |-> user_ok,
                ret |-> input_validate(input_opts, Self, user_ok)]
    /\ UNCHANGED <<string_input, overflow_checks, pc, others>>

\* The call of finish of the InputPrompt, which follows a validate that
\* gave Validation::Finish and consumes the prompt
InputFinish ==
    /\ pc = "live"
    /\ call.op = "input_validate"
    /\ call.ret = "Finish"
    /\ \E o \in {input_finish(input_opts, Self)} :
        /\ call' = [op |-> "input_finish",
                    before |-> [value |-> value, accepted |-> accepted,
                                default |-> input_opts.default],
                    ret |-> o]
        /\ pc' = IF o.ret = "panic" THEN "panicked" ELSE "finished"
    /\ UNCHANGED <<string_input, overflow_checks, others>>

\* The defaults given to InputBuilder::default
DefaultStrings == {<<>>, <<"d">>, <<"é", "d">>, <<"(", "d", ")">>}

NextInput ==
    \/ \E key \in RenderKeys : HandleKey(key)
    \/ \E user_ok \in BOOLEAN : InputValidate(user_ok)
    \/ InputFinish

\* The InputPrompt that Input::ask makes: an Input built with or without a
\* default and a validate function, and StringInput::default()
InitInput ==
    /\ InitStringInput
    /\ filter = "no_filter"
    /\ char_input = with_filter_map("no_filter")
    /\ multi_select = MultiSelectDefault
    /\ answers = {}
    /\ \E vl \in {"None", "Sync"} :
        input_opts \in {input_ask([InputDefault EXCEPT !.validate = vl])}
                        \cup {input_ask(input_default([InputDefault EXCEPT !.validate = vl], s)) :
                                 s \in DefaultStrings}

\* An InputPrompt driven by its keys until validate and finish
SpecInput == InitInput /\ [][NextInput]_vars

\* The names of the questions
Names == {"name", "age", "cheese"}

\* The questions asked
Questions ==
    [name : Names, message : {None, Some("Your name?")}, ask_if_answered : BOOLEAN,
     when : {"true", "false", "has_answers"}]

\* One call of Question::ask, which borrows the Answers immutably
Ask(q, outcome) ==
    /\ pc = "live"
    /\ \E o \in {ask(q, answers, outcome)} :
        call' = [op |-> "ask", arg |-> q, before |-> answers, ret |-> o.ret,
                 when_evaluated |-> o.when_evaluated, prompted |-> o.prompted,
                 message |-> o.message, key |-> o.key]
    /\ UNCHANGED <<string_input, overflow_checks, pc, others>>

NextAsk == \E q \in Questions, outcome \in {"Some", "None", "Err"} : Ask(q, outcome)

\* Answers that hold the answers of any of the questions
InitAsk ==
    /\ InitStringInput
    /\ filter = "no_filter"
    /\ overflow_checks = TRUE
    /\ char_input = with_filter_map("no_filter")
    /\ multi_select = MultiSelectDefault
    /\ answers \in SUBSET Names
    /\ input_opts = InputDefault

\* Questions asked against given Answers
SpecAsk == InitAsk /\ [][NextAsk]_vars

\* A StringInput made by new and driven by handle_key until finish
Spec == Init /\ [][Next]_vars

\* The same, with calls of set_value as well
SpecSetValue == Init /\ [][NextSetValue]_vars

(***************************************************************************)
(* The keys the claims speak of.                                           *)
(***************************************************************************)
\* Backspace, Ctrl+W, Alt+Backspace, Alt+W, Ctrl+U
LeftDeleteKeys ==
    {k \in KeyEvents :
        \/ k.code = "Backspace"
        \/ IsChar(k, "w") /\ k.mods \cap {"CONTROL", "ALT"} # {}
        \/ IsChar(k, "u") /\ "CONTROL" \in k.mods}

\* Delete, Ctrl+D, Alt+Delete, Alt+D, Ctrl+K
RightDeleteKeys ==
    {k \in KeyEvents :
        \/ k.code = "Delete"
        \/ IsChar(k, "d") /\ k.mods \cap {"CONTROL", "ALT"} # {}
        \/ IsChar(k, "k") /\ "CONTROL" \in k.mods}

\* A step made by handle_key
HandleKeyStep == \E key \in KeyEvents : HandleKey(key)

\* What handle_key, called with the key k in the current state, leaves
Call(k) == handle_key(Self, k, filter, overflow_checks)

(***************************************************************************)
(* C1.  After any sequence of handle_key and set_value calls that          *)
(* returned, 0 <= at <= value_len and value_len is the number of chars of  *)
(* value.                                                                  *)
(***************************************************************************)
C1_CursorWithinLength ==
    pc = "live" => (0 <= at /\ at <= value_len /\ value_len = Len(value))

(***************************************************************************)
(* C2.  Every handle_key call is atomic: it ends with value, value_len and *)
(* at updated consistently by one complete edit, or with all three         *)
(* unchanged; a call that aborts part-way has changed none of them.        *)
(***************************************************************************)
C2_HandleKeyAtomic ==
    [][HandleKeyStep =>
        \/ UNCHANGED <<value, value_len, at>>
        \/ /\ pc' = "live"
           /\ value_len' - value_len = Len(value') - Len(value)]_vars

(***************************************************************************)
(* C3.  A deletion key pressed where there is nothing to delete is a       *)
(* no-op: a leftward deletion key at at = 0 and a rightward deletion key   *)
(* at at = value_len complete normally and leave value, at and value_len   *)
(* unchanged.                                                              *)
(***************************************************************************)
C3_DeleteAtBoundaryNoOp ==
    [][/\ \A k \in LeftDeleteKeys :
            (at = 0 /\ HandleKey(k)) =>
                (pc' = "live" /\ UNCHANGED <<value, value_len, at>>)
       /\ \A k \in RightDeleteKeys :
            (at = value_len /\ HandleKey(k)) =>
                (pc' = "live" /\ UNCHANGED <<value, value_len, at>>)]_vars

(***************************************************************************)
(* C4.  Rejected input changes nothing: a plain Char key the filter maps   *)
(* to None, and a movement at its boundary (Left, PrevWord, Home at        *)
(* at = 0; Right, NextWord, End at at = value_len), make handle_key return *)
(* false and leave value, at, value_len and has_value as they were.        *)
(***************************************************************************)
\* The keys handle_key rejects in the current state
RejectedKeys ==
    {k \in KeyEvents :
        \/ /\ k.code = "Char"
           /\ k.mods \cap {"CONTROL", "ALT"} = {}
           /\ ~filter_map_char(filter, k.ch).some
        \/ /\ k.code \in {"Left", "Home"}
           /\ at = 0
        \/ /\ k.code \in {"Right", "End"}
           /\ at = value_len}

C4_RejectedInputChangesNothing ==
    pc = "live" =>
        \A k \in RejectedKeys :
            \E o \in {Call(k)} :
                /\ o.ret = "false"
                /\ o.value = value
                /\ o.value_len = value_len
                /\ o.at = at
                /\ has_value(o) = has_value(Self)

\* The filter has rejected "C" on the untouched buffer
C4_Witness ==
    /\ pc = "live"
    /\ ret = "false"
    /\ filter = "reject_upper"
    /\ value = <<>>
    /\ ~has_value(Self)

(***************************************************************************)
(* C5.  has_value is monotone under key handling: once a handle_key call   *)
(* has inserted a char, has_value is true after every later sequence of    *)
(* handle_key calls, also when deletions have emptied the value again.     *)
(***************************************************************************)
C5_HasValueMonotone ==
    (pc \in {"live", "panicked"} /\ accepted) => has_value(Self)

\* A char was inserted and the value has been deleted back to empty
C5_Witness ==
    /\ pc = "live"
    /\ accepted
    /\ ret = "true"
    /\ value = <<>>
    /\ has_value(Self)

(***************************************************************************)
(* C6.  For a StringInput made by new and changed only by handle_key,      *)
(* finish returns None exactly when no char was ever inserted, and         *)
(* otherwise Some of the current value, which may be empty.                *)
(***************************************************************************)
C6_FinishNoneIffNeverInserted ==
    [][Finish => result' = (IF accepted THEN Some(value) ELSE None)]_vars

\* finish returned Some("") after the inserted chars were deleted again
C6_Witness ==
    /\ pc = "finished"
    /\ accepted
    /\ result = Some(<<>>)

(***************************************************************************)
(* C7.  Round trip: for every string s, set_value(s) followed by finish    *)
(* with no call in between returns Some(s).                                *)
(***************************************************************************)
C7_SetValueFinishRoundTrip ==
    (pc = "finished" /\ last_set.set) => result = Some(last_set.s)

\* C7 as amended: set_value(s) followed by finish returns Some(s) for every
\* String s that holds an allocation (capacity > 0: every non-empty s and an
\* empty one with capacity), and None for an empty String without one.
C7_SetValueFinishRoundTripAllocated ==
    (pc = "finished" /\ last_set.set) =>
        result = (IF last_set.cap > 0 THEN Some(last_set.s) ELSE None)

\* finish returned the non-empty string set_value was given
C7_Witness ==
    /\ pc = "finished"
    /\ last_set.set
    /\ last_set.s # <<>>
    /\ result = Some(last_set.s)

(***************************************************************************)
(* C8.  Character insertion: a Char key without Control and Alt for which  *)
(* the filter gives Some(c) makes handle_key return true, with the new     *)
(* value the old one with c inserted at char index at, and at and          *)
(* value_len each increased by exactly 1.                                  *)
(***************************************************************************)
\* The first n chars of v, and the chars after them
Prefix(v, n) == SubSeq(v, 1, IF n < Len(v) THEN n ELSE Len(v))

Suffix(v, n) == SubSeq(v, (IF n < Len(v) THEN n ELSE Len(v)) + 1, Len(v))

\* The plain Char keys the filter accepts
InsertKeys ==
    {k \in KeyEvents :
        /\ k.code = "Char"
        /\ k.mods \cap {"CONTROL", "ALT"} = {}
        /\ filter_map_char(filter, k.ch).some}

C8_InsertionSplices ==
    [][\A k \in InsertKeys :
          HandleKey(k) =>
              /\ ret' = "true"
              /\ value' = Prefix(value, at)
                          \o <<filter_map_char(filter, k.ch).c>>
                          \o Suffix(value, at)
              /\ at' = at + 1
              /\ value_len' = value_len + 1]_vars

(***************************************************************************)
(* C9.  Insert followed by Backspace is the identity: handle_key with an   *)
(* accepted plain char returns true, and an unmodified Backspace right     *)
(* after it returns true and restores value, at and value_len.             *)
(***************************************************************************)
Backspace == [code |-> "Backspace", ch |-> "", mods |-> {}]

C9_InsertThenBackspaceIdentity ==
    [][/\ \A k \in InsertKeys : HandleKey(k) => ret' = "true"
       /\ (before_insert.inserted /\ HandleKey(Backspace)) =>
              /\ ret' = "true"
              /\ value' = before_insert.value
              /\ at' = before_insert.at
              /\ value_len' = before_insert.value_len]_vars

(***************************************************************************)
(* C10.  Delete-previous-word (Alt+Backspace, Alt+W) with at > 0 removes   *)
(* the chars from the start of the last word segment before the cursor     *)
(* that is not whitespace (0 if there is none) up to the cursor, sets at   *)
(* to that start, reduces value_len by the number of chars removed and     *)
(* leaves the chars from the old cursor on unchanged.                      *)
(***************************************************************************)
PrevWordDeleteKeys ==
    {k \in KeyEvents :
        /\ k.code = "Backspace" \/ IsChar(k, "w")
        /\ "ALT" \in k.mods}

\* The char index where the last non-whitespace word segment that starts
\* before the char index cur begins; 0 if there is none
PrevWordStart(v, cur) ==
    LET starts == {i \in 0..(cur - 1) :
                      /\ i < Len(v)
                      /\ ~IsWhitespace(v[i + 1])
                      /\ i = 0 \/ WordBreakBetween(v[i], v[i + 1])}
    IN  IF starts = {} THEN 0 ELSE Max(starts)

C10_DeletePrevWord ==
    [][\A k \in PrevWordDeleteKeys :
          (at > 0 /\ HandleKey(k)) =>
              /\ ret' = "true"
              /\ value' = Prefix(value, PrevWordStart(value, at)) \o Suffix(value, at)
              /\ at' = PrevWordStart(value, at)
              /\ value_len' = value_len - (Len(value) - Len(value'))]_vars

(***************************************************************************)
(* C11.  Every deletion removes one contiguous range of chars adjacent to  *)
(* the cursor and decrements value_len by the number of chars removed: a   *)
(* leftward deletion sets at to the start of the removed range and leaves  *)
(* the text from the old cursor on unchanged; a rightward deletion leaves  *)
(* at and the text before the cursor unchanged.                            *)
(***************************************************************************)
\* The keys is_delete_movement takes for a deletion in the current state
DeletingKeys(keys) == {k \in keys : is_delete_movement(Self, k) # "None"}

C11_DeletionRemovesAdjacentRange ==
    pc = "live" =>
        /\ \A k \in DeletingKeys(LeftDeleteKeys) :
            \E o \in {Call(k)} :
                /\ o.ret = "true"
                /\ o.at <= at
                /\ o.value = Prefix(value, o.at) \o Suffix(value, at)
                /\ o.value_len = value_len - (Len(value) - Len(o.value))
        /\ \A k \in DeletingKeys(RightDeleteKeys) :
            \E o \in {Call(k)} :
                /\ o.ret = "true"
                /\ o.at = at
                /\ \E n \in 0..Len(value) :
                      o.value = Prefix(value, at) \o Suffix(value, at + n)
                /\ o.value_len = value_len - (Len(value) - Len(o.value))

(***************************************************************************)
(* C12.  Delete-to-home and delete-to-end: Ctrl+U leaves value equal to    *)
(* the old value from the cursor on, with at = 0 and value_len = old       *)
(* value_len - old at; Ctrl+K leaves value equal to the old value before   *)
(* the cursor, with at unchanged and value_len = at.                       *)
(***************************************************************************)
CtrlU == [code |-> "Char", ch |-> "u", mods |-> {"CONTROL"}]

CtrlK == [code |-> "Char", ch |-> "k", mods |-> {"CONTROL"}]

C12_DeleteToHomeAndEnd ==
    pc = "live" =>
        /\ \E o \in {Call(CtrlU)} :
              /\ o.ret = "true"
              /\ o.value = Suffix(value, at)
              /\ o.at = 0
              /\ o.value_len = value_len - at
        /\ \E o \in {Call(CtrlK)} :
              /\ o.ret = "true"
              /\ o.value = Prefix(value, at)
              /\ o.at = at
              /\ o.value_len = at

(***************************************************************************)
(* C13.  The movement keys that do not delete (Left, Right, PrevWord,      *)
(* NextWord, Home, End) never change value or value_len; only at may       *)
(* change, and Home leaves at = 0 and End leaves at = value_len.           *)
(***************************************************************************)
\* The arrow keys, Home and End, with any modifiers
MovementKeys == {k \in KeyEvents : k.code \in {"Left", "Right", "Home", "End"}}

C13_MovementKeepsContent ==
    pc = "live" =>
        \A k \in MovementKeys :
            \E o \in {Call(k)} :
                /\ o.ret \in {"true", "false"}
                /\ o.value = value
                /\ o.value_len = value_len
                /\ has_value(o) = has_value(Self)
                /\ k.code = "Home" => o.at = 0
                /\ k.code = "End" => o.at = value_len

\* Home has been pressed with the cursor behind two chars, "é" among them
C13_Witness ==
    /\ pc = "live"
    /\ ret = "true"
    /\ at = 0
    /\ value_len = 2
    /\ value = <<"é", "d">>
    /\ ~before_insert.inserted

(***************************************************************************)
(* C14.  For every movement key that does not delete, handle_key returns   *)
(* true if and only if at after the call differs from at before it;        *)
(* PrevWord with at > 0 moves the cursor strictly left and NextWord with   *)
(* at < value_len moves it strictly right.                                 *)
(***************************************************************************)
C14_TrueIffCursorMoved ==
    pc = "live" =>
        \A k \in MovementKeys :
            \E o \in {Call(k)} :
                /\ o.ret \in {"true", "false"}
                /\ (o.ret = "true") <=> (o.at # at)
                /\ (try_from_key(k) = "PrevWord" /\ at > 0) => o.at < at
                /\ (try_from_key(k) = "NextWord" /\ at < value_len) => o.at > at

(***************************************************************************)
(* C15.  render with max_width <= 3 returns a formatting error and writes  *)
(* nothing, on any buffer whatever its content.                            *)
(***************************************************************************)
C15_NarrowWidthIsError ==
    (call.op = "render" /\ call.arg <= 3) =>
        (call.ret = "Err" /\ call.written = <<>>)

\* C15 as the code has it: on any buffer whose output is not hidden
C15_NarrowWidthIsErrorUnlessHidden ==
    (call.op = "render" /\ call.arg <= 3 /\ ~call.before.hide_output) =>
        (call.ret = "Err" /\ call.written = <<>>)

\* render(3) has refused a masked buffer of three chars
C15_Witness ==
    /\ call.op = "render"
    /\ call.arg = 3
    /\ ~call.before.hide_output
    /\ call.before.mask.some
    /\ Len(call.before.value) = 3
    /\ call.ret = "Err"

(***************************************************************************)
(* C16.  With hide_output set, by hide_output or by password(None), render *)
(* writes no byte and returns Ok for every value, every mask and every     *)
(* max_width, max_width <= 3 and a value longer than max_width included.   *)
(***************************************************************************)
C16_HiddenRendersNothing ==
    /\ (call.op = "render" /\ call.before.hide_output) =>
          (call.ret = "Ok" /\ call.written = <<>>)
    /\ pc = "live" =>
          \E o \in {password(View, None)} :
              /\ o.hide_output
              /\ o.mask = mask
              /\ \A max_width \in Widths :
                    \E r \in {render(o, max_width)} :
                        r.ret = "Ok" /\ r.written = <<>>

\* A hidden buffer with a mask and more chars than max_width has been
\* rendered with a width render accepts
C16_Witness ==
    /\ call.op = "render"
    /\ call.before.hide_output
    /\ call.before.mask.some
    /\ call.arg > 3
    /\ Len(call.before.value) > call.arg
    /\ call.ret = "Ok"

(***************************************************************************)
(* C17.  Masked rendering: for a buffer not hidden with the mask M, a      *)
(* value of N chars and max_width > 3 with N <= max_width, render writes   *)
(* exactly N copies of the UTF-8 encoding of M and nothing else.           *)
(***************************************************************************)
C17_MaskedWritesOneMaskPerChar ==
    (/\ call.op = "render"
     /\ ~call.before.hide_output
     /\ call.before.mask.some
     /\ call.arg > 3
     /\ Len(call.before.value) <= call.arg) =>
        /\ call.ret = "Ok"
        /\ call.written =
              write_repeated(Len(call.before.value), encode_utf8(call.before.mask.c))

(***************************************************************************)
(* C18.  render on a buffer not hidden whose value has more chars than     *)
(* max_width (max_width > 3) ends with a defined result, Ok or Err, and    *)
(* does not abort the program.                                             *)
(***************************************************************************)
C18_LongValueRenderIsDefined ==
    (/\ call.op = "render"
     /\ ~call.before.hide_output
     /\ call.arg > 3
     /\ Len(call.before.value) > call.arg) =>
        call.ret \in {"Ok", "Err"}

(***************************************************************************)
(* C19.  Rendering never mutates the buffer: render and cursor_pos leave   *)
(* value, at, value_len, mask and hide_output unchanged for every state    *)
(* and every max_width, whatever the outcome of the call.                  *)
(***************************************************************************)
C19_RenderLeavesBuffer ==
    [][(\/ \E max_width \in Widths : Render(max_width)
        \/ \E prompt_len \in PromptLens : CursorPos(prompt_len)) =>
          UNCHANGED <<value, at, value_len, mask, hide_output>>]_vars

\* render has aborted on a value longer than max_width, the value intact
C19_Witness ==
    /\ call.op = "render"
    /\ call.ret = "panic"
    /\ Len(value) > call.arg
    /\ value = LongValue
    /\ at = Len(value)

(***************************************************************************)
(* C20.  cursor_pos(prompt_len) returns (prompt_len, 0) when the output is *)
(* hidden and (prompt_len + at, 0) otherwise, at being the char index of   *)
(* the cursor; the row is always 0.                                        *)
(***************************************************************************)
C20_CursorPosIsPromptPlusCursor ==
    call.op = "cursor_pos" =>
        /\ call.ret = "ok"
        /\ call.written =
              IF call.before.hide_output
              THEN <<call.arg, 0>>
              ELSE <<call.arg + call.before.at, 0>>

(***************************************************************************)
(* C21.  The render of a plain string: for max_width > 3, a string of at   *)
(* most max_width chars is written verbatim, and a longer string is        *)
(* written as its first max_width - 3 chars (chars, not bytes) followed by *)
(* "...", so the output never has more than max_width chars.               *)
(***************************************************************************)
\* What the claim has the call write for the string s
Shown(s, max_width) ==
    IF Len(s) <= max_width THEN s
    ELSE Prefix(s, max_width - 3) \o <<".", ".", ".">>

C21_StrRenderTruncatesByChars ==
    (call.op = "render_str" /\ call.arg > 3) =>
        /\ call.ret = "Ok"
        /\ call.written = as_bytes(Shown(call.before.value, call.arg))
        /\ Len(Shown(call.before.value, call.arg)) <= call.arg

\* A string of 6 chars that starts with "é" has been cut to 2 chars and "..."
C21_Witness ==
    /\ call.op = "render_str"
    /\ call.arg = 5
    /\ Len(call.before.value) = 6
    /\ call.before.value[1] = "é"
    /\ call.written = <<195, 169>> \o as_bytes(<<call.before.value[2], ".", ".", ".">>)

(***************************************************************************)
(* C22.  The render of a plain string with max_width <= 3 returns a        *)
(* formatting error and writes nothing for every string, also for one      *)
(* that fits within max_width, such as the empty string.                   *)
(***************************************************************************)
C22_StrRenderNarrowWidthIsError ==
    (call.op = "render_str" /\ call.arg <= 3) =>
        (call.ret = "Err" /\ call.written = <<>>)

\* The empty string has been refused at width 3
C22_Witness ==
    /\ call.op = "render_str"
    /\ call.arg = 3
    /\ call.before.value = <<>>
    /\ call.ret = "Err"

(***************************************************************************)
(* C23.  CharInput keeps only the last accepted char: in every state       *)
(* handle_key with Char(c) whose filter_map gives Some(c') returns true    *)
(* and leaves value() = Some(c'), whatever the value was.                  *)
(***************************************************************************)
\* The last call was handle_key of the CharInput with a Char key
CharKeyCalled == call.op = "char_handle_key" /\ call.arg.code = "Char"

\* What the filter_map of the CharInput gave for the char of that call
Mapped == filter_map_char(call.before.filter_map, call.arg.ch)

C23_CharInputKeepsLastChar ==
    (CharKeyCalled /\ Mapped.some) =>
        (call.ret = "true" /\ char_input.value = Some(Mapped.c))

\* "-", mapped to " ", has overwritten another char
C23_Witness ==
    /\ CharKeyCalled
    /\ call.before.filter_map = "dash_to_space"
    /\ call.arg.ch = "-"
    /\ call.before.value.some
    /\ call.before.value.c = "é"
    /\ char_input.value = Some(" ")

(***************************************************************************)
(* C24.  CharInput deletion: Backspace or Delete returns true and sets     *)
(* value() to None when a value is present, and returns false, value()     *)
(* staying None, when none is; every key other than Char, Backspace and    *)
(* Delete returns false and leaves value() unchanged.                      *)
(***************************************************************************)
C24_CharInputDeletion ==
    call.op = "char_handle_key" =>
        /\ (call.arg.code \in {"Backspace", "Delete"} /\ call.before.value.some) =>
              (call.ret = "true" /\ char_input.value = None)
        /\ (call.arg.code \in {"Backspace", "Delete"} /\ ~call.before.value.some) =>
              (call.ret = "false" /\ char_input.value = None)
        /\ call.arg.code \notin {"Char", "Backspace", "Delete"} =>
              (call.ret = "false" /\ char_input.value = call.before.value)

\* Delete has been refused on a CharInput without a value
C24_Witness ==
    /\ call.op = "char_handle_key"
    /\ call.arg.code = "Delete"
    /\ ~call.before.value.some
    /\ call.ret = "false"

(***************************************************************************)
(* C25.  CharInput filter rejection: handle_key with Char(c) whose         *)
(* filter_map gives None returns false and leaves value() unchanged,       *)
(* whether it was None or Some.                                            *)
(***************************************************************************)
C25_CharInputRejection ==
    (CharKeyCalled /\ ~Mapped.some) =>
        (call.ret = "false" /\ char_input.value = call.before.value)

\* "C" has been rejected on a CharInput that holds a char
C25_Witness ==
    /\ CharKeyCalled
    /\ call.arg.ch = "C"
    /\ call.before.filter_map = "reject_upper"
    /\ call.before.value.some
    /\ call.ret = "false"
    /\ char_input.value = call.before.value

(***************************************************************************)
(* C26.  CharInput::cursor_pos(layout) returns (layout.line_offset + 1, 0) *)
(* when a value is present and (layout.line_offset, 0) when none is, for   *)
(* every line_offset.                                                      *)
(***************************************************************************)
\* The column right after the char, if any, of the last cursor_pos call
ColumnAfterChar ==
    call.arg.line_offset + (IF call.before.value.some THEN 1 ELSE 0)

C26_CharCursorPosAfterChar ==
    call.op = "char_cursor_pos" =>
        (call.ret = "ok" /\ call.pos = <<ColumnAfterChar, 0>>)

\* C26 as the code has it: for every line_offset whose column fits a u16;
\* beyond, a build with overflow checks panics and one without gives
\* column 0
C26_CharCursorPosAfterCharInU16 ==
    call.op = "char_cursor_pos" =>
        IF ColumnAfterChar < U16Mod
        THEN call.ret = "ok" /\ call.pos = <<ColumnAfterChar, 0>>
        ELSE IF overflow_checks
             THEN call.ret = "panic"
             ELSE call.ret = "ok" /\ call.pos = <<0, 0>>

\* cursor_pos has given column 6 for a CharInput with a char at offset 5
C26_Witness ==
    /\ call.op = "char_cursor_pos"
    /\ call.before.value.some
    /\ call.arg.line_offset = 5
    /\ call.pos = <<6, 0>>

(***************************************************************************)
(* C27.  CharInput::render with no value writes nothing to the backend     *)
(* and leaves the layout unchanged; with a value it writes that char and   *)
(* increases layout.line_offset by exactly 1, changing no other field of   *)
(* the layout.                                                             *)
(***************************************************************************)
C27_CharRenderAdvancesLayout ==
    call.op = "char_render" =>
        /\ call.ret = "Ok"
        /\ ~call.before.value.some =>
              (call.written = <<>> /\ call.layout = call.arg)
        /\ call.before.value.some =>
              /\ call.written = encode_utf8(call.before.value.c)
              /\ call.layout =
                    [call.arg EXCEPT !.line_offset = call.arg.line_offset + 1]

\* C27 as the code has it: line_offset + 1 is a u16 addition; at the
\* largest u16 a build with overflow checks panics with nothing written and
\* one without wraps line_offset to 0
C27_CharRenderAdvancesLayoutInU16 ==
    call.op = "char_render" =>
        /\ ~call.before.value.some =>
              (call.ret = "Ok" /\ call.written = <<>> /\ call.layout = call.arg)
        /\ (call.before.value.some /\ call.arg.line_offset + 1 < U16Mod) =>
              /\ call.ret = "Ok"
              /\ call.written = encode_utf8(call.before.value.c)
              /\ call.layout =
                    [call.arg EXCEPT !.line_offset = call.arg.line_offset + 1]
        /\ (call.before.value.some /\ call.arg.line_offset + 1 >= U16Mod) =>
              IF overflow_checks
              THEN call.ret = "panic" /\ call.written = <<>> /\ call.layout = call.arg
              ELSE /\ call.ret = "Ok"
                   /\ call.written = encode_utf8(call.before.value.c)
                   /\ call.layout = [call.arg EXCEPT !.line_offset = 0]

\* "é" has been written at offset 5 and the layout moved to offset 6
C27_Witness ==
    /\ call.op = "char_render"
    /\ call.before.value = Some("é")
    /\ call.arg.line_offset = 5
    /\ call.written = <<195, 169>>
    /\ call.layout.line_offset = 6
    /\ call.layout.width = call.arg.width

(***************************************************************************)
(* C28.  MultiSelect separator guarantee: whenever the user's validate or  *)
(* filter function is called, after any sequence of key presses and        *)
(* earlier validate calls, the boolean at every separator index of the     *)
(* vector it is given is false.                                            *)
(***************************************************************************)
C28_SeparatorsFalseForUser ==
    (call.op \in {"ms_validate", "ms_finish"} /\ call.seen.some) =>
        \A i \in 1..Len(call.before.choices) :
            call.before.choices[i] = "Separator" => ~call.seen.c[i]

\* The user's function has been called after a separator had been selected
\* and has seen it not selected
C28_Witness ==
    /\ call.op = "ms_validate"
    /\ call.seen.some
    /\ \E i \in 1..Len(call.before.choices) :
          /\ call.before.choices[i] = "Separator"
          /\ call.before.selected[i]
          /\ ~call.seen.c[i]

(***************************************************************************)
(* C29.  MultiSelect 'a' toggles all: in every reachable state, with or    *)
(* without separators in the list, pressing 'a' selects every choice if    *)
(* at least one choice that is no separator is unselected, and deselects   *)
(* every choice if all choices that are no separators are selected.        *)
(***************************************************************************)
\* The indices of the choices that are no separators
ChoiceIndices(m) == {i \in 1..Len(m.choices) : m.choices[i] = "Choice"}

C29_ToggleAll ==
    (call.op = "ms_handle_key" /\ IsChar(call.arg, "a")) =>
        /\ call.ret = "true"
        /\ IF \E i \in ChoiceIndices(call.before) : ~call.before.selected[i]
           THEN \A i \in ChoiceIndices(multi_select) : multi_select.selected[i]
           ELSE \A i \in ChoiceIndices(multi_select) : ~multi_select.selected[i]

(***************************************************************************)
(* C30.  Question::ask skips a question already answered: if the answers   *)
(* contain the name of the question and ask_if_answered is false, ask      *)
(* returns Ok(None) without running the prompt and without evaluating      *)
(* `when`; if ask_if_answered is true the answer does not cause a skip.    *)
(***************************************************************************)
C30_AskSkipsAnswered ==
    (call.op = "ask" /\ call.arg.name \in call.before) =>
        IF ~call.arg.ask_if_answered
        THEN call.ret = "Ok(None)" /\ ~call.prompted /\ ~call.when_evaluated
        ELSE /\ call.when_evaluated
             /\ call.prompted = get_when(call.arg.when, call.before)

\* A question already answered has been asked again with ask_if_answered
\* and has given an answer
C30_Witness ==
    /\ call.op = "ask"
    /\ call.arg.name \in call.before
    /\ call.arg.ask_if_answered
    /\ call.prompted
    /\ call.ret = "Ok(Some)"

(***************************************************************************)
(* C31.  Question::ask honours `when`: if `when` evaluates to false on the *)
(* current answers, ask returns Ok(None) and no prompt is run; when a      *)
(* prompt is run and yields an answer, the key of the pair returned is     *)
(* exactly the name of the question.                                       *)
(***************************************************************************)
C31_AskHonoursWhen ==
    call.op = "ask" =>
        /\ ~get_when(call.arg.when, call.before) =>
               call.ret = "Ok(None)" /\ ~call.prompted
        /\ (call.prompted /\ call.ret = "Ok(Some)") => call.key = Some(call.arg.name)

\* A question not yet answered whose `when` gives false has been asked
C31_Witness ==
    /\ call.op = "ask"
    /\ call.arg.name \notin call.before
    /\ call.arg.when = "has_answers"
    /\ call.before = {}
    /\ call.when_evaluated
    /\ call.ret = "Ok(None)"

(***************************************************************************)
(* C32.  The default message of Question::ask: when no message is given,   *)
(* the message handed to the prompt is the name of the question followed   *)
(* by a colon and a space.                                                 *)
(***************************************************************************)
C32_AskDefaultMessage ==
    (call.op = "ask" /\ call.prompted /\ ~call.arg.message.some) =>
        call.message = Some(call.arg.name \o ": ")

(***************************************************************************)
(* C33.  handle_key returns true only when the event caused a change: for  *)
(* every state and every key event, a true result implies that the content *)
(* or the cursor differs from its value before the call, the deletion      *)
(* shortcuts pressed at cursor 0 or at the end included.                   *)
(***************************************************************************)
C33_TrueOnlyOnChange ==
    pc = "live" =>
        \A k \in KeyEvents :
            \E o \in {Call(k)} :
                o.ret = "true" => (o.value # value \/ o.at # at)

(***************************************************************************)
(* C34.  The target of the next word: for every content and every cursor   *)
(* before the end, on a word char or on whitespace, the NextWord movement  *)
(* places the cursor at, and Alt+Delete and Alt+D delete from the cursor   *)
(* up to, the start of the first word that begins strictly to the right of *)
(* the cursor, or the end of the content if there is no such word.         *)
(***************************************************************************)
\* Ctrl+Right and Alt+Right
NextWordKeys == {k \in KeyEvents : try_from_key(k) = "NextWord"}

\* Alt+Delete and Alt+D
NextWordDeleteKeys ==
    {k \in KeyEvents :
        /\ k.code = "Delete" \/ IsChar(k, "d")
        /\ "ALT" \in k.mods}

\* The char index where the first non-whitespace word segment that starts
\* after the char index cur begins; the number of chars if there is none
NextWordStart(v, cur) ==
    LET starts == {i \in (cur + 1)..(Len(v) - 1) :
                      /\ ~IsWhitespace(v[i + 1])
                      /\ WordBreakBetween(v[i], v[i + 1])}
    IN  IF starts = {} THEN Len(v) ELSE Min(starts)

C34_NextWordTarget ==
    (pc = "live" /\ value_len = Len(value) /\ at < value_len) =>
        /\ \A k \in NextWordKeys :
               \E o \in {Call(k)} :
                   /\ o.ret = "true"
                   /\ o.at = NextWordStart(value, at)
                   /\ o.value = value
        /\ \A k \in NextWordDeleteKeys :
               \E o \in {Call(k)} :
                   /\ o.ret = "true"
                   /\ o.at = at
                   /\ o.value = Prefix(value, at) \o Suffix(value, NextWordStart(value, at))

(***************************************************************************)
(* C35.  MultiSelectBuilder keeps its two lists aligned: after any         *)
(* sequence of choice, choice_with_default, separator, default_separator,  *)
(* choices and choices_with_default calls, selected has exactly as many    *)
(* entries as choices, the default of every separator entry is false, and  *)
(* the default of each Choice entry is the value given for it (false when  *)
(* none was given).                                                        *)
(***************************************************************************)
\* The kinds and the defaults of the entries a call of the builder was given
GivenKinds ==
    CASE call.op \in {"choice", "choice_with_default"} -> <<"Choice">>
      [] call.op \in {"separator", "default_separator"} -> <<"Separator">>
      [] call.op = "choices" -> call.arg
      [] call.op = "choices_with_default" ->
             [i \in 1..Len(call.arg) |-> call.arg[i].kind]

GivenDefaults ==
    CASE call.op = "choice_with_default" -> <<call.arg>>
      [] call.op = "choices_with_default" ->
             [i \in 1..Len(call.arg) |->
                 call.arg[i].kind = "Choice" /\ call.arg[i].selected]
      [] OTHER -> [i \in 1..Len(GivenKinds) |-> FALSE]

BuilderOps ==
    {"choice", "choice_with_default", "separator", "default_separator", "choices",
     "choices_with_default"}

C35_BuilderKeepsListsAligned ==
    /\ Len(multi_select.selected) = Len(multi_select.choices)
    /\ \A i \in 1..Len(multi_select.choices) :
           multi_select.choices[i] = "Separator" =>
               i <= Len(multi_select.selected) /\ ~multi_select.selected[i]
    /\ call.op \in BuilderOps =>
           /\ multi_select.choices = call.before.choices \o GivenKinds
           /\ multi_select.selected = call.before.selected \o GivenDefaults

\* choices has added a Choice and a separator after a Choice selected by
\* default
C35_Witness ==
    /\ call.op = "choices"
    /\ call.arg = <<"Choice", "Separator">>
    /\ multi_select.choices = <<"Choice", "Choice", "Separator">>
    /\ multi_select.selected = <<TRUE, FALSE, FALSE>>

(***************************************************************************)
(* C36.  MultiSelectPrompt::finish never returns a separator: after any    *)
(* sequence of key presses ('i' and 'a', which also flip the entries of    *)
(* the separators, included) and with or without a filter or a validate    *)
(* function, every ListItem returned corresponds to a Choice entry whose   *)
(* selected flag is true, its index is the position of that entry in the   *)
(* list of choices, and the items are in strictly increasing order of      *)
(* index.  The selected flags are those of the vector the filter returned  *)
(* when there is a filter.                                                 *)
(***************************************************************************)
\* The selected flags finish makes its ListItems of
FinalSelected ==
    IF call.before.filter = "Sync" THEN user_filter(call.arg, call.seen.c)
    ELSE call.before.selected

C36_FinishReturnsNoSeparator ==
    call.op = "ms_finish" =>
        \A k \in 1..Len(call.ret) :
            /\ call.ret[k] \in 0..(Len(call.before.choices) - 1)
            /\ call.before.choices[call.ret[k] + 1] = "Choice"
            /\ call.ret[k] < Len(FinalSelected)
            /\ FinalSelected[call.ret[k] + 1]
            /\ k > 1 => call.ret[k - 1] < call.ret[k]

\* finish, without a filter, has returned two items of a list where the
\* entry of a separator was selected
C36_Witness ==
    /\ call.op = "ms_finish"
    /\ call.before.filter = "None"
    /\ \E j \in 1..Len(call.before.choices) :
           call.before.choices[j] = "Separator" /\ call.before.selected[j]
    /\ Len(call.ret) = 2

(***************************************************************************)
(* C37.  InputPrompt::finish called after validate returned Ok never fails *)
(* (the default is present whenever the input yields no value), and its    *)
(* result before filtering is the configured default string exactly as     *)
(* given (the parentheses Input::ask added for the hint are removed again) *)
(* when no char was ever received, and otherwise the typed content, which  *)
(* is the empty string rather than the default when chars were typed and   *)
(* then all deleted.                                                       *)
(***************************************************************************)
C37_InputFinish ==
    call.op = "input_finish" =>
        /\ call.ret.ret = "ok"
        /\ IF call.before.accepted
           THEN call.ret.ans = call.before.value
           ELSE \E s \in DefaultStrings :
                    /\ call.before.default = input_ask(input_default(InputDefault, s)).default
                    /\ call.ret.ans = s

\* finish has given the empty string for an input with a default whose
\* chars were typed and then all deleted
C37_Witness ==
    /\ call.op = "input_finish"
    /\ call.before.accepted
    /\ call.before.value = <<>>
    /\ call.before.default = Some(<<"(", "d", ")">>)
    /\ call.ret = [ret |-> "ok", ans |-> <<>>]

====
